---- MODULE Spec2Model ----
(***************************************************************************)
(* A model of the monetdb-rust driver core: the connection (conn.rs), the  *)
(* cursor engine (cursor/mod.rs), the reply parser (cursor/replies.rs),    *)
(* the delayed command queue (cursor/delayed.rs) and the MAPI block codec  *)
(* (framing/blockstate.rs, framing/reading.rs, framing/writing.rs).        *)
(*                                                                         *)
(* Reply buffers are sequences of tokens.  A token stands for one byte or  *)
(* one space-separated field of a line; the newline and the leading byte   *)
(* of every line ('&', '!', '[', '%') are tokens of their own, so that     *)
(* offsets into a buffer are computed as the code computes them.           *)
(***************************************************************************)
EXTENDS Integers, Sequences, FiniteSets, TLC

\* ------------------------------------------------------------------ bounds
\* Largest total_rows of a result set the server produces.
MaxRows == 3
\* Number of execute() calls made on the connection, over all cursors.
MaxExec == 2

\* The negotiated reply sizes explored (conn.rs: Conn.reply_size); 0 asks the
\* server for all rows in the first reply.
ReplySizes == {0, 1, 2}
\* The cursors created on the connection.
Cursors == {1, 2}

\* ------------------------------------------------------------------ tokens
T(ch) == [c |-> ch, n |-> 0]
N(num) == [c |-> "#", n |-> num]
NL == T("\n")
BANG == T("!")
AMP == T("&")
PCT == T("%")
LBR == T("[")

\* Option<u64> / Option<i64>: None
None == -1

Min(a, b) == IF a <= b THEN a ELSE b

\* The least index i in lo..hi with P(i), or 0 (memchr / memmem::find).
FirstIndex(lo, hi, P(_)) ==
    LET S == {i \in lo..hi : P(i)}
    IN IF S = {} THEN 0 ELSE CHOOSE i \in S : \A j \in S : i <= j

Drop(s, k) == SubSeq(s, k + 1, Len(s))

SP == T(" ")
IsNum(tok) == tok.c = "#"

\* -------------------------------------------------- replies.rs: ReplyBuf
\* A ReplyBuf is modelled by the bytes not yet consumed, data[pos..].

\* ReplyBuf::split(b'\n'): the line before the first newline, and the rest.
split(buf) ==
    LET end == FirstIndex(1, Len(buf), LAMBDA i : buf[i] = NL)
    IN IF end = 0
       THEN [err |-> IF buf = <<>> THEN "UnexpectedEnd" ELSE "SepNotFound",
             line |-> <<>>, buf |-> buf]
       ELSE [err |-> "", line |-> SubSeq(buf, 1, end - 1), buf |-> Drop(buf, end)]

\* ReplyBuf::find_line(first): offset of the first line that starts with `first`.
find_line(buf, first) ==
    IF buf = <<>> THEN None
    ELSE IF buf[1] = first THEN 0
    ELSE LET idx == FirstIndex(1, Len(buf) - 1,
                               LAMBDA i : buf[i] = NL /\ buf[i + 1] = first)
         IN IF idx = 0 THEN None ELSE idx

\* ---------------------------------------------------- rowset.rs: RowSet
\* RowSet.fields holds the fields of the current row; NoFields when there is none.
NoFields == T("")
RowSet(buf, ncols) == [buf |-> buf, ncols |-> ncols, fields |-> NoFields]
NoRowSet == [some |-> FALSE, buf |-> <<>>, ncols |-> 0, fields |-> NoFields]
SomeRowSet(rs) == [some |-> TRUE, buf |-> rs.buf, ncols |-> rs.ncols, fields |-> rs.fields]

\* RowSet::advance: a row is the line '[' <fields> '\n'; its fields are one token.
advance(row_set) ==
    IF row_set.buf = <<>> \/ row_set.buf[1] # LBR
    THEN [err |-> "", more |-> FALSE, row_set |-> [row_set EXCEPT !.fields = NoFields]]
    ELSE IF Len(row_set.buf) >= 3 /\ IsNum(row_set.buf[2]) /\ row_set.buf[3] = NL
    THEN [err |-> "", more |-> TRUE,
          row_set |-> [row_set EXCEPT !.buf = Drop(@, 3), !.fields = row_set.buf[2]]]
    ELSE [err |-> "BadReply", more |-> FALSE,
          row_set |-> [row_set EXCEPT !.fields = NoFields]]

\* RowSet::finish: skip to the next line starting with '&', or to the end.
finish(row_set) ==
    LET idx == find_line(row_set.buf, AMP)
    IN IF idx # None THEN Drop(row_set.buf, idx) ELSE <<>>

\* ------------------------------------------------ replies.rs: ReplyParser
NoResultSet ==
    [result_id |-> None, next_row |-> 0, total_rows |-> 0,
     row_set |-> RowSet(<<>>, 0), stashed |-> NoRowSet, to_close |-> None]

Exhausted == [kind |-> "Exhausted", buf |-> <<>>, affected |-> None,
              auto_commit |-> FALSE, rs |-> NoResultSet]
ErrorReply(buf) == [Exhausted EXCEPT !.kind = "Error", !.buf = buf]
Success(buf, affected) ==
    [Exhausted EXCEPT !.kind = "Success", !.buf = buf, !.affected = affected]
Tx(buf, auto_commit) ==
    [Exhausted EXCEPT !.kind = "Tx", !.buf = buf, !.auto_commit = auto_commit]
Data(rs) == [Exhausted EXCEPT !.kind = "Data", !.rs = rs]

Failed(e) == [err |-> e, parser |-> Exhausted]
Parsed(p) == [err |-> "", parser |-> p]

\* ReplyParser::parse_header: the first `nfields` numbers after the 3-byte tag.
parse_header(buf, nfields) ==
    LET s == split(buf)
        parts == Drop(s.line, 3)
    IN IF s.err # "" THEN [err |-> "BadReply", fields |-> <<>>, buf |-> buf]
       ELSE IF Len(s.line) < 3 THEN [err |-> "panic", fields |-> <<>>, buf |-> buf]
       ELSE IF Len(parts) < nfields \/ \E i \in 1..nfields : ~IsNum(parts[i])
       THEN [err |-> "BadReply", fields |-> <<>>, buf |-> s.buf]
       ELSE [err |-> "", fields |-> [i \in 1..nfields |-> parts[i].n], buf |-> s.buf]

\* The five kinds of column-metadata line, in the order parse_data expects them.
DataHeaders == <<"table_name", "name", "type", "length", "typesizes">>

\* ReplyParser::parse_data_header, applied to the five lines in turn.
RECURSIVE parse_data_headers(_, _)
parse_data_headers(buf, i) ==
    IF i > Len(DataHeaders) THEN [err |-> "", buf |-> buf]
    ELSE LET s == split(buf)
         IN IF s.err # "" \/ s.line # <<PCT, T(DataHeaders[i])>>
            THEN [err |-> "BadReply", buf |-> buf]
            ELSE parse_data_headers(s.buf, i + 1)

\* A parse_data that asks for every result set to be closed.
parse_data_closing(buf) ==
    LET h == parse_header(buf, 4)
        m == parse_data_headers(h.buf, 1)
    IN IF h.err # "" THEN Failed(h.err)
       ELSE IF m.err # "" THEN Failed(m.err)
       ELSE Parsed(Data([result_id |-> h.fields[1],
                         next_row |-> 0,
                         total_rows |-> h.fields[2],
                         row_set |-> RowSet(m.buf, h.fields[3]),
                         stashed |-> NoRowSet,
                         to_close |-> h.fields[1]]))

\* ReplyParser::parse_data
parse_data(buf) ==
    LET h == parse_header(buf, 4)
        result_id == h.fields[1]
        rows_total == h.fields[2]
        ncols == h.fields[3]
        rows_included == h.fields[4]
        m == parse_data_headers(h.buf, 1)
    IN IF h.err # "" THEN Failed(h.err)
       ELSE IF m.err # "" THEN Failed(m.err)
       ELSE Parsed(Data([result_id |-> result_id,
                         next_row |-> 0,
                         total_rows |-> rows_total,
                         row_set |-> RowSet(m.buf, ncols),
                         stashed |-> NoRowSet,
                         to_close |-> IF rows_included < rows_total
                                      THEN result_id ELSE None]))

\* ReplyParser::parse_successful_update
parse_successful_update(buf) ==
    LET h == parse_header(buf, 1)
    IN IF h.err # "" THEN Failed(h.err) ELSE Parsed(Success(h.buf, h.fields[1]))

\* ReplyParser::parse_successful_other
parse_successful_other(buf) ==
    LET h == parse_header(buf, 0)
    IN IF h.err # "" THEN Failed(h.err) ELSE Parsed(Success(h.buf, None))

\* ReplyParser::parse_autocommit_status
parse_autocommit_status(buf) ==
    LET s == split(buf)
    IN IF s.err # "" THEN Failed("BadReply")
       ELSE IF Len(s.line) >= 4 /\ s.line[3] = SP /\ s.line[4] \in {T("f"), T("t")}
       THEN Parsed(Tx(s.buf, s.line[4] = T("t")))
       ELSE Failed("BadReply")

\* ReplyParser::parse_error
parse_error(buf) ==
    LET s == split(buf)
    IN IF s.err # "" THEN Failed("BadReply") ELSE Parsed(ErrorReply(s.buf))

\* ReplyParser::parse: dispatch on the first bytes of the buffer.
parse(buf) ==
    IF buf = <<>> THEN Parsed(Exhausted)
    ELSE IF buf[1] = BANG THEN parse_error(buf)
    ELSE IF Len(buf) >= 2 /\ buf[1] = AMP /\ buf[2] = T("1") THEN parse_data(buf)
    ELSE IF Len(buf) >= 2 /\ buf[1] = AMP /\ buf[2] = T("2")
    THEN parse_successful_update(buf)
    ELSE IF Len(buf) >= 2 /\ buf[1] = AMP /\ buf[2] = T("3")
    THEN parse_successful_other(buf)
    ELSE IF Len(buf) >= 2 /\ buf[1] = AMP /\ buf[2] = T("4")
    THEN parse_autocommit_status(buf)
    ELSE Failed("BadReply")

\* An into_next_reply that goes on from the window the cursor is in.
take_buf_window(r) ==
    IF r.kind = "Data" THEN finish(r.rs.row_set) ELSE r.buf

\* The buffer into_next_reply takes out of the parser state: the reply's own
\* buffer, or what finish() leaves of the (stashed) row set.
take_buf(r) ==
    IF r.kind = "Data"
    THEN (IF r.rs.stashed.some THEN finish(r.rs.stashed) ELSE finish(r.rs.row_set))
    ELSE r.buf

\* The pair into_next_reply returns once ReplyParser::parse returned `p`.
next_reply_pair(r, p) ==
    [err |-> p.err, parser |-> p.parser,
     to_close |-> IF r.kind = "Data" THEN r.rs.to_close ELSE None]

\* An into_next_reply that never reports a result set to close.
into_next_reply_forgets(r) ==
    [next_reply_pair(r, parse(take_buf(r))) EXCEPT !.to_close = None]

\* ReplyParser::into_next_reply: the next parser state and the result set to close.
into_next_reply(r) == next_reply_pair(r, parse(take_buf(r)))

\* ReplyParser::detect_errors: the text of the first line that starts with '!'.
detect_errors(response) ==
    LET pos == FirstIndex(1, Len(response) - 1,
                          LAMBDA i : response[i] = NL /\ response[i + 1] = BANG)
        start == IF response = <<>> THEN None
                 ELSE IF response[1] = BANG THEN 1
                 ELSE IF pos # 0 THEN (pos - 1) + 1
                 ELSE None
        bytes == Drop(response, start)
        idx == FirstIndex(1, Len(bytes), LAMBDA i : bytes[i] = NL)
    IN IF start = None THEN [err |-> "", text |-> <<>>]
       ELSE [err |-> "Server",
             text |-> IF idx # 0 THEN SubSeq(bytes, 1, idx - 1) ELSE bytes]

\* ------------------------------------------------------------ the server
\* What the statements sent by execute() make the server answer: the kinds of
\* the sections of the reply, in wire order.
Scripts ==
    << <<"upd", "data">>,
       <<"data", "data">>,
       <<"err">>,
       <<"ok", "err", "tx">>,
       <<"data", "err", "ok">>,
       <<"ok", "tx", "data", "upd">> >>

\* Number of columns of the result sets the server produces.
NCols == 2

RECURSIVE RowLines(_, _)
\* The row lines of rows lo .. hi-1.
RowLines(lo, hi) ==
    IF lo >= hi THEN <<>> ELSE <<LBR, N(lo), NL>> \o RowLines(lo + 1, hi)

MetaLines ==
    <<PCT, T("table_name"), NL, PCT, T("name"), NL, PCT, T("type"), NL,
      PCT, T("length"), NL, PCT, T("typesizes"), NL>>

\* One section of a statement's reply; `i` is its place in the reply, `id` the
\* result id a result set gets, `total` and `k` its row count and first window.
Section(kind, i, id, total, k) ==
    CASE kind = "ok" -> <<AMP, T("3"), SP, N(0), NL>>
      [] kind = "upd" -> <<AMP, T("2"), SP, N(total), NL>>
      [] kind = "tx" -> <<AMP, T("4"), SP, T("f"), NL>>
      [] kind = "err" -> <<BANG, N(i), NL>>
      [] kind = "data" ->
            <<AMP, T("1"), SP, N(id), N(total), N(NCols), N(k), NL>>
            \o MetaLines \o RowLines(0, k)

\* The number of result sets among the first i sections of a script.
RECURSIVE DataBefore(_, _)
DataBefore(script, i) ==
    IF i = 0 THEN 0
    ELSE DataBefore(script, i - 1) + (IF script[i] = "data" THEN 1 ELSE 0)

RECURSIVE StatementReply(_, _, _, _, _)
\* The reply to a statement: sections i .. Len(script) of its script.
StatementReply(script, i, nextId, total, k) ==
    IF i > Len(script) THEN <<>>
    ELSE Section(script[i], i, nextId + DataBefore(script, i - 1), total, k)
         \o StatementReply(script, i + 1, nextId, total, k)

\* A server-side result set: kept open while rows remain to be fetched, and
\* released at once when the first reply carried all its rows.
Released == [total |-> 0, k |-> 0, open |-> FALSE]
ServerResult(total, k) ==
    IF k < total THEN [total |-> total, k |-> k, open |-> TRUE] ELSE Released

\* The server's answer to one message, and its result sets afterwards.
\* `total` and `k` are the row counts it gives the result sets of a statement.
ServerAnswer(msg, results, total, k) ==
    IF msg # <<>> /\ msg[1] = T("s")
    THEN LET script == Scripts[msg[2].n]
             ndata == DataBefore(script, Len(script))
         IN [reply |-> StatementReply(script, 1, Len(results) + 1, total, k),
             results |-> results \o [j \in 1..ndata |-> ServerResult(total, k)]]
    ELSE IF msg # <<>> /\ msg[1] = T("Xexport")
    THEN LET id == msg[2].n
             start == msg[3].n
             n == msg[4].n
         IN IF id \in 1..Len(results) /\ results[id].open
               /\ start <= results[id].total
            THEN LET cnt == Min(n, results[id].total - start)
                 IN [reply |-> <<AMP, T("6"), SP, N(id), N(NCols), N(cnt), N(start), NL>>
                               \o RowLines(start, start + cnt),
                     results |-> results]
            ELSE [reply |-> <<BANG, N(0), NL>>, results |-> results]
    ELSE IF msg # <<>> /\ msg[1] = T("Xclose")
    THEN LET id == msg[2].n
         IN IF id \in 1..Len(results)
            THEN [reply |-> <<>>, results |-> [results EXCEPT ![id] = Released]]
            ELSE [reply |-> <<BANG, N(0), NL>>, results |-> results]
    ELSE [reply |-> <<BANG, N(0), NL>>, results |-> results]

RECURSIVE Serve(_, _, _, _)
\* The server reads the messages of one write in order and answers each.
Serve(msgs, results, total, k) ==
    IF msgs = <<>> THEN [replies |-> <<>>, results |-> results]
    ELSE LET a == ServerAnswer(Head(msgs), results, total, k)
             rest == Serve(Tail(msgs), a.results, total, k)
         IN [replies |-> <<a.reply>> \o rest.replies, results |-> rest.results]

\* ------------------------------------------- framing/blockstate.rs: Header
\* framing/mod.rs: BLOCKSIZE
BLOCKSIZE == 8190

\* Header::new: the two bytes of 2 * size + last, little endian, in 16 bits.
Header_new(size, last) ==
    LET n == (2 * size + (IF last THEN 1 ELSE 0)) % 65536
    IN <<n % 256, n \div 256>>

\* Header::size
Header_size(header) == (header[1] + 256 * header[2]) \div 2

\* Header::is_last
is_last(header) == header[1] % 2 = 1

\* A from_bytes that accepts every size.
from_bytes_unchecked(bytes) == [err |-> "", header |-> bytes]

\* Header::from_bytes
from_bytes(bytes) ==
    IF Header_size(bytes) <= BLOCKSIZE
    THEN [err |-> "", header |-> bytes]
    ELSE [err |-> "InvalidBlockSize", header |-> bytes]

\* --------------------------------------- framing/blockstate.rs: BlockState
Start == [tag |-> "Start", lo |-> 0, remaining |-> 0, last |-> FALSE]
PartialHeader(lo) == [tag |-> "PartialHeader", lo |-> lo, remaining |-> 0, last |-> FALSE]
Body(remaining, last) == [tag |-> "Body", lo |-> 0, remaining |-> remaining, last |-> last]
End == [tag |-> "End", lo |-> 0, remaining |-> 0, last |-> FALSE]

\* BlockState::new
BlockState_new(remaining, last) ==
    IF remaining = 0 THEN (IF last THEN End ELSE Start) ELSE Body(remaining, last)

\* BlockState::from_header
from_header(header) == BlockState_new(Header_size(header), is_last(header))

\* The result of skip_headers: the range start..end of `data` and the new state.
Skipped(err, start, end, st) == [err |-> err, start |-> start, end |-> end, state |-> st]

RECURSIVE skip_loop(_, _, _)
\* The loop of BlockState::skip_headers, at offset `pos` of `data` in state `st`.
skip_loop(st, data, pos) ==
    LET end == Len(data)
        avail == end - pos
    IN IF pos >= end THEN Skipped("", end, end, st)
       ELSE IF st.tag = "Body" /\ st.remaining > avail
       THEN Skipped("", pos, pos + avail, BlockState_new(st.remaining - avail, st.last))
       ELSE IF st.tag = "Body"
       THEN Skipped("", pos, pos + st.remaining, BlockState_new(0, st.last))
       ELSE IF st.tag = "Start" /\ avail >= 2
       THEN LET h == from_bytes(<<data[pos + 1], data[pos + 2]>>)
            IN IF h.err # "" THEN Skipped(h.err, 0, 0, st)
               ELSE skip_loop(from_header(h.header), data, pos + 2)
       ELSE IF st.tag = "Start"
       THEN Skipped("", end, end, PartialHeader(data[pos + 1]))
       ELSE IF st.tag = "PartialHeader"
       THEN LET h == from_bytes(<<st.lo, data[pos + 1]>>)
            IN IF h.err # "" THEN Skipped(h.err, 0, 0, st)
               ELSE skip_loop(from_header(h.header), data, pos + 1)
       ELSE Skipped("panic", 0, 0, st)

\* BlockState::skip_headers
skip_headers(st, data) == skip_loop(st, data, 0)

\* BlockState::interpret: the range, with the state to assign to *self; on an
\* error the state is left as it was.
interpret(st, data) == skip_headers(st, data)

\* ---------------------------------------------- framing/writing.rs: MapiBuf
MapiBuf(buffer, block_left) == [buffer |-> buffer, block_left |-> block_left]

\* MapiBuf::with_buf: an empty buffer holding the dummy header.
with_buf == MapiBuf(<<255, 255>>, BLOCKSIZE)

\* A finish_block that never sets the last flag.
finish_block_unended(mb, end) ==
    LET used == BLOCKSIZE - mb.block_left
        header == Header_new(used, FALSE)
        start == Len(mb.buffer) - used - 2
    IN MapiBuf(SubSeq(mb.buffer, 1, start) \o header
                 \o SubSeq(mb.buffer, start + 3, Len(mb.buffer)) \o <<255, 255>>,
               BLOCKSIZE)

\* MapiBuf::finish_block: write the header of the open block, start the next.
finish_block(mb, end) ==
    LET used == BLOCKSIZE - mb.block_left
        header == Header_new(used, end)
        start == Len(mb.buffer) - used - 2
    IN MapiBuf(SubSeq(mb.buffer, 1, start) \o header
                 \o SubSeq(mb.buffer, start + 3, Len(mb.buffer)) \o <<255, 255>>,
               BLOCKSIZE)

RECURSIVE append_long(_, _)
\* MapiBuf::append_long
append_long(mb, data) ==
    IF data = <<>> THEN mb
    ELSE LET b == IF mb.block_left = 0 THEN finish_block(mb, FALSE) ELSE mb
             n == Min(Len(data), b.block_left)
         IN append_long(MapiBuf(b.buffer \o SubSeq(data, 1, n), b.block_left - n),
                        Drop(data, n))

\* An append that closes a block as soon as it is full.
append_eager(mb, data) ==
    IF Len(data) <= mb.block_left /\ Len(data) < mb.block_left
    THEN MapiBuf(mb.buffer \o data, mb.block_left - Len(data))
    ELSE IF Len(data) <= mb.block_left
    THEN finish_block(MapiBuf(mb.buffer \o data, 0), FALSE)
    ELSE append_long(mb, data)

\* MapiBuf::append
append(mb, data) ==
    IF Len(data) <= mb.block_left
    THEN MapiBuf(mb.buffer \o data, mb.block_left - Len(data))
    ELSE append_long(mb, data)

\* MapiBuf::end
end(mb) == finish_block(mb, TRUE)

\* MapiBuf::reset: the bytes to write and the buffer cut back to its header.
reset(mb) ==
    LET raw_len == Len(mb.buffer) - (IF mb.block_left = BLOCKSIZE THEN 2 ELSE 0)
    IN [raw |-> SubSeq(mb.buffer, 1, raw_len),
        mb |-> MapiBuf(SubSeq(mb.buffer, 1, 2), BLOCKSIZE)]

\* --------------------------------------------- framing/reading.rs: MapiReader
\* A MapiReader over the transport: its BlockState and the offset `pos` its
\* inner reader has reached in the byte stream.
MapiReader(state, pos) == [state |-> state, pos |-> pos]

\* The outcome of a read: the reader, the bytes put in the caller's buffer.
ReadResult(err, rd, bytes) == [err |-> err, rd |-> rd, bytes |-> bytes]

\* MapiReader::read_header: read_exact of `want` bytes, then interpret.
read_header(rd, bytes, want) ==
    IF Len(bytes) - rd.pos < want
    THEN ReadResult("UnexpectedEof", MapiReader(rd.state, Len(bytes)), <<>>)
    ELSE LET r == interpret(rd.state, SubSeq(bytes, rd.pos + 1, rd.pos + want))
         IN IF r.err # "" THEN ReadResult(r.err, MapiReader(rd.state, rd.pos + want), <<>>)
            ELSE ReadResult("", MapiReader(r.state, rd.pos + want), <<>>)

\* A read_body that always tries to read the next header as well.
read_body_greedy(rd, bytes, buflen, k) ==
    LET n == Min(rd.state.remaining + 2, buflen)
        nread == Min(Min(k, n), Len(bytes) - rd.pos)
        buf == SubSeq(bytes, rd.pos + 1, rd.pos + nread)
        range == interpret(rd.state, buf)
        next_range == IF range.end < nread
                      THEN interpret(range.state, Drop(buf, range.end))
                      ELSE range
    IN IF nread = 0 THEN ReadResult("UnexpectedEof", rd, <<>>)
       ELSE IF range.err # "" THEN ReadResult(range.err, MapiReader(rd.state, rd.pos + nread), <<>>)
       ELSE IF next_range.err # ""
       THEN ReadResult(next_range.err, MapiReader(range.state, rd.pos + nread), <<>>)
       ELSE IF range.end < nread /\ next_range.start # next_range.end
       THEN ReadResult("panic", MapiReader(next_range.state, rd.pos + nread), <<>>)
       ELSE ReadResult("", MapiReader(next_range.state, rd.pos + nread),
                       SubSeq(buf, 1, range.end))

\* MapiReader::read_body: the transport hands over at most `k` bytes.
read_body(rd, bytes, buflen, k) ==
    LET ideal_read == IF rd.state.last THEN rd.state.remaining
                      ELSE rd.state.remaining + 2
        n == Min(ideal_read, buflen)
        nread == Min(Min(k, n), Len(bytes) - rd.pos)
        buf == SubSeq(bytes, rd.pos + 1, rd.pos + nread)
        range == interpret(rd.state, buf)
        next_range == IF range.end < nread
                      THEN interpret(range.state, Drop(buf, range.end))
                      ELSE range
    IN IF nread = 0 THEN ReadResult("UnexpectedEof", rd, <<>>)
       ELSE IF range.err # "" THEN ReadResult(range.err, MapiReader(rd.state, rd.pos + nread), <<>>)
       ELSE IF next_range.err # ""
       THEN ReadResult(next_range.err, MapiReader(range.state, rd.pos + nread), <<>>)
       ELSE IF range.end < nread /\ next_range.start # next_range.end
       THEN ReadResult("panic", MapiReader(next_range.state, rd.pos + nread), <<>>)
       ELSE ReadResult("", MapiReader(next_range.state, rd.pos + nread),
                       SubSeq(buf, 1, range.end))

RECURSIVE do_read(_, _, _, _)
\* MapiReader::do_read into a buffer of `buflen` bytes.
do_read(rd, bytes, buflen, k) ==
    IF buflen = 0 THEN ReadResult("", rd, <<>>)
    ELSE IF rd.state.tag = "Body" THEN read_body(rd, bytes, buflen, k)
    ELSE IF rd.state.tag = "End" THEN ReadResult("", rd, <<>>)
    ELSE LET h == read_header(rd, bytes, IF rd.state.tag = "Start" THEN 2 ELSE 1)
         IN IF h.err # "" THEN h ELSE do_read(h.rd, bytes, buflen, k)

\* ------------------------------------------------------------------ state
VARIABLES
    reply_size,   \* Conn.reply_size, fixed at construction
    sock,         \* Locked.sock: TRUE when the socket is in its slot (Some)
    closing,      \* Conn.closing
    holder,       \* the cursor whose run_locked call holds Conn.locked, or 0
    poisoned,     \* whether the mutex Conn.locked is poisoned
    delayed,      \* Locked.delayed: DelayedCommands {buffer, responses}
    dropped,      \* whether the Connection handle has been dropped (close())
    results,      \* the server's result sets, indexed by result id
    sockIn,       \* reply messages the server has written, not yet read
    sockOut,      \* the last write to the socket: who wrote, the messages,
                  \* and the responses expected before its own reply
    replies,      \* Cursor.replies, per cursor
    pc,           \* where each cursor's thread is
    op,           \* the cursor method a thread is in
    pend,         \* next_reply's locals `new` and `to_close` while it waits
    ret,          \* what the cursor method last called returned
    trues,        \* times next_row returned true on the cursor's result set
    fetched,      \* the Xexports sent for that result set: start, n, rows returned
    erred,        \* whether an execute of the cursor has returned a server error
    hist,         \* per result id: whether it was partial, passed, closed
    nexec,        \* number of execute() calls made
    app,          \* the application: the cursors it made, the statements it runs
    src,          \* codec: where the byte stream comes from, "writer" or "foreign"
    m,            \* codec: the message handed to the MapiBuf
    mb,           \* codec: the MapiBuf
    appended,     \* codec: how many bytes of m have been appended
    nappend,      \* codec: number of append() calls made
    stream,       \* codec: the bytes on the transport
    stage,        \* codec: "write", "ended", "read", "failed"; "off" when unused
    mode,         \* codec: "blocks" (BlockState fed slices) or "reader" (MapiReader)
    rd,           \* codec: the reader's BlockState and its offset in the stream
    out,          \* codec: the payload bytes the reader has delivered
    nread,        \* codec: number of short reads made
    rres,         \* codec: what the latest read returned
    round,        \* codec: which message of the stream the reader is on
    limit,        \* codec: what is left of the limit of a bounded read
    parms,        \* login: the Parameters establish_connection works on
    where,        \* login: "off", "connect" (loop head), "login", "done"
    hops,         \* login: iterations of the 'redirect loop begun
    nsock,        \* login: sockets opened by connect_socket
    cur,          \* login: the socket in use: its number, host, challenges read
    restarts,     \* login: times the 'restart loop went round
    chal,         \* login: the challenge line last read
    answer,       \* login: the response last sent, the delayed commands made
    outcome,      \* login: what the last round of login() came to
    established,  \* login: what establish_connection returned
    sections,     \* parser: the kinds of the sections of the reply, in wire order
    parser,       \* parser: the ReplyParser
    seen,         \* parser: the kinds of the replies the parser has been at
    more,         \* parser: whether the last step left the parser at a reply
    wire,         \* rows: the fields of the rows the window was written from
    win,          \* rows: the RowSet
    adv,          \* rows: what the last advance() returned, "" before the first
    nadv,         \* rows: number of times advance() returned true
    got,          \* rows: the getter last called and what it returned
    conv          \* escapes: the ReplyBuf inside convert_backslashes, loop by loop

connVars == <<reply_size, sock, closing, holder, poisoned, delayed, dropped>>
serverVars == <<results, sockIn, sockOut>>
cursorVars == <<replies, pc, op, pend, ret, trues, fetched, erred, hist, nexec, app>>
codecVars ==
    <<src, m, mb, appended, nappend, stream, stage, mode, rd, out, nread, rres,
      round, limit>>
loginVars == <<parms, where, hops, nsock, cur, restarts, chal, answer, outcome, established>>
parseVars == <<sections, parser, seen, more, wire, win, adv, nadv, got, conv>>

\* ------------------------------------------------ cursor/mod.rs: Cursor
Op(name, phase, arg, text) ==
    [name |-> name, phase |-> phase, arg |-> arg, text |-> text]
NoOp == Op("", "", 0, <<>>)
Pend(new, to_close) == [new |-> new, close |-> to_close]
NoPend == Pend(Exhausted, None)
Ret(name, kind, val, text) ==
    [name |-> name, kind |-> kind, val |-> val, text |-> text]

\* A cursor method returns: the thread is idle again, or gone after close/drop,
\* or dead when the method panicked.
Done(r, name, kind, val, text, passed) ==
    [replies |-> r,
     pc |-> IF kind = "panic" THEN "panicked"
            ELSE IF name = "close" THEN "gone" ELSE "idle",
     op |-> NoOp, pend |-> NoPend,
     ret |-> Ret(name, kind, val, text), passed |-> passed]

\* A cursor method reaches a run_locked call and waits for the mutex.
Want(r, what, o, p, passed) ==
    [replies |-> r, pc |-> what, op |-> o, pend |-> p,
     ret |-> Ret(o.name, "", FALSE, <<>>), passed |-> passed]

\* The result set a parser state leaves behind when it needs no Xclose.
LeftBehind(r, to_close) ==
    IF r.kind = "Data" /\ to_close = None THEN {r.rs.result_id} ELSE {}

\* ReplyParser::take_buffer: the vector of an exhausted parser, which stays
\* exhausted; a panic on any other.
take_buffer(r) == [panic |-> r.kind # "Exhausted", parser |-> Exhausted]

\* What follows Cursor::exhaust in execute (before the command and after a
\* server error) and in do_close, with the parser at `r`.
AfterExhaust(r, o, passed) ==
    IF o.name = "execute" /\ o.phase = "post"
    THEN Done(r, "execute", "Server", FALSE, o.text, passed)
    ELSE IF take_buffer(r).panic
    THEN Done(r, o.name, "panic", FALSE, <<T("take_buffer")>>, passed)
    ELSE IF o.name = "execute"
    THEN Want(Exhausted, "want_cmd", o, NoPend, passed)
    ELSE Want(Exhausted, "want_flush", o, NoPend, passed)

RECURSIVE exhaust(_, _, _)
\* One turn of the loop of Cursor::exhaust, in which into_next_reply
\* returned `res`.
exhaust_turn(r, o, passed, res) ==
    IF res.err # ""
    THEN Done(Exhausted, o.name, res.err, FALSE, <<>>, passed)
    ELSE IF res.to_close # None
    THEN Want(Exhausted, "want_close", o, Pend(res.parser, res.to_close), passed)
    ELSE exhaust(res.parser, o, passed \cup LeftBehind(r, res.to_close))

\* An exhaust that moves on by one reply and returns.
exhaust_once(r, o, passed) ==
    IF r.kind = "Exhausted" THEN AfterExhaust(r, o, passed)
    ELSE IF into_next_reply(r).err # ""
    THEN Done(Exhausted, o.name, into_next_reply(r).err, FALSE, <<>>, passed)
    ELSE IF into_next_reply(r).to_close # None
    THEN Want(Exhausted, "want_close", o,
              Pend(into_next_reply(r).parser, into_next_reply(r).to_close), passed)
    ELSE AfterExhaust(into_next_reply(r).parser, o,
                      passed \cup LeftBehind(r, None))

\* Cursor::exhaust: next_reply until Exhausted; stops at the first queue_close.
exhaust(r, o, passed) ==
    IF r.kind = "Exhausted" THEN AfterExhaust(r, o, passed)
    ELSE exhaust_turn(r, o, passed, into_next_reply(r))

\* Cursor::next_reply after into_next_reply returned `res`, up to its
\* queue_close.
next_reply_of(r, res) ==
    IF res.err # ""
    THEN Done(Exhausted, "next_reply", res.err, FALSE, <<>>, {})
    ELSE IF res.to_close # None
    THEN Want(Exhausted, "want_close", Op("next_reply", "", 0, <<>>),
              Pend(res.parser, res.to_close), {})
    ELSE Done(res.parser, "next_reply", "Ok", res.parser.kind # "Exhausted", <<>>,
              LeftBehind(r, res.to_close))

\* Cursor::next_reply up to its queue_close.
next_reply(r) == next_reply_of(r, into_next_reply(r))

\* next_reply and exhaust after queue_close returned Ok: switch_to_reply(new).
AfterQueueClose(o, p) ==
    IF o.name = "next_reply"
    THEN Done(p.new, "next_reply", "Ok", p.new.kind # "Exhausted", <<>>, {p.close})
    ELSE exhaust(p.new, o, {p.close})

\* A decide_next_fetch that always asks for a full window.
decide_next_fetch_full(r, size) ==
    [res_id |-> r.rs.result_id, start |-> r.rs.next_row, n |-> size]

\* A decide_next_fetch that asks for one row fewer.
decide_next_fetch_short(r, size) ==
    [res_id |-> r.rs.result_id, start |-> r.rs.next_row,
     n |-> Min(r.rs.total_rows - r.rs.next_row, size) - 1]

\* Cursor::decide_next_fetch
decide_next_fetch(r, size) ==
    [res_id |-> r.rs.result_id, start |-> r.rs.next_row,
     n |-> Min(r.rs.total_rows - r.rs.next_row, size)]

\* A row loop that asks the server again at the end of the result set.
RowLoop_refetching(r, passed) ==
    LET a == advance(r.rs.row_set)
    IN IF a.err # "" THEN Done(r, "next_row", a.err, FALSE, <<>>, passed)
       ELSE IF a.more
       THEN Done([r EXCEPT !.rs.row_set = a.row_set, !.rs.next_row = @ + 1],
                 "next_row", "Ok", TRUE, <<>>, passed)
       ELSE Want(r, "want_fetch", Op("next_row", "", 0, <<>>), NoPend, passed)

\* A row loop that counts the call that finds no row as a row.
RowLoop_counting(r, passed) ==
    LET a == advance(r.rs.row_set)
    IN IF a.err # "" THEN Done(r, "next_row", a.err, FALSE, <<>>, passed)
       ELSE IF a.more
       THEN Done([r EXCEPT !.rs.row_set = a.row_set, !.rs.next_row = @ + 1],
                 "next_row", "Ok", TRUE, <<>>, passed)
       ELSE IF r.rs.next_row >= r.rs.total_rows
       THEN Done([r EXCEPT !.rs.next_row = @ + 1], "next_row", "Ok", FALSE, <<>>, passed)
       ELSE Want(r, "want_fetch", Op("next_row", "", 0, <<>>), NoPend, passed)

\* The loop of Cursor::next_row on a result set, up to fetch_more_rows;
\* result_set_mut is unreachable!() on anything but a result set.
RowLoop(r, passed) ==
    LET a == advance(r.rs.row_set)
    IN IF r.kind # "Data"
       THEN Done(r, "next_row", "panic", FALSE, <<T("unreachable")>>, passed)
       ELSE IF a.err # "" THEN Done(r, "next_row", a.err, FALSE, <<>>, passed)
       ELSE IF a.more
       THEN Done([r EXCEPT !.rs.row_set = a.row_set, !.rs.next_row = @ + 1],
                 "next_row", "Ok", TRUE, <<>>, passed)
       ELSE IF r.rs.next_row = r.rs.total_rows
       THEN Done(r, "next_row", "Ok", FALSE, <<>>, passed)
       ELSE Want(r, "want_fetch", Op("next_row", "", 0, <<>>), NoPend, passed)

\* A next_row that does not look beyond the current reply.
skip_to_result_set_staying(r, passed) ==
    IF r.kind = "Data" THEN RowLoop(r, passed)
    ELSE Done(r, "next_row", "NoResultSet", FALSE, <<>>, passed)

RECURSIVE skip_to_result_set(_, _)
\* One turn of the loop of Cursor::skip_to_result_set, in which
\* into_next_reply returned `res`.
skip_turn(res, passed) ==
    IF res.err # ""
    THEN Done(Exhausted, "next_row", res.err, FALSE, <<>>, passed)
    ELSE skip_to_result_set(res.parser, passed)

\* Cursor::skip_to_result_set, followed by the row loop.
skip_to_result_set(r, passed) ==
    IF r.kind = "Data" THEN RowLoop(r, passed)
    ELSE IF r.kind = "Exhausted"
    THEN Done(r, "next_row", "NoResultSet", FALSE, <<>>, passed)
    ELSE skip_turn(into_next_reply(r), passed)

\* A fetch_more_rows that reads the Xexport header as it reads a &1 header,
\* with the column count third.
fetch_more_rows_third(r, vec) ==
    LET e == detect_errors(vec)
        h == parse_header(vec, 4)
        new_row_set == RowSet(h.buf, h.fields[3])
    IN IF e.err # "" THEN Done(r, "next_row", e.err, FALSE, e.text, {})
       ELSE IF h.err # "" THEN Done(r, "next_row", h.err, FALSE, <<>>, {})
       ELSE RowLoop([r EXCEPT !.rs.row_set = new_row_set,
                              !.rs.stashed = IF @.some THEN @
                                             ELSE SomeRowSet(r.rs.row_set)], {})

\* Cursor::fetch_more_rows after its command returned the reply `vec`.
fetch_more_rows(r, vec) ==
    LET e == detect_errors(vec)
        h == parse_header(vec, 4)
        new_row_set == RowSet(h.buf, h.fields[2])
    IN IF e.err # "" THEN Done(r, "next_row", e.err, FALSE, e.text, {})
       ELSE IF h.err # "" THEN Done(r, "next_row", h.err, FALSE, <<>>, {})
       ELSE RowLoop([r EXCEPT !.rs.row_set = new_row_set,
                              !.rs.stashed = IF @.some THEN @
                                             ELSE SomeRowSet(r.rs.row_set)], {})

\* An execute that returns the server's error without draining the reply.
Replied_undrained(o, error, p) ==
    IF p.err # "" THEN Done(Exhausted, "execute", p.err, FALSE, <<>>, {})
    ELSE IF error.err # ""
    THEN Done(p.parser, "execute", "Server", FALSE, error.text, {})
    ELSE Done(p.parser, "execute", "Ok", FALSE, <<>>, {})

\* Cursor::execute once detect_errors returned `error` and
\* ReplyParser::parse returned `p`.
Replied(o, error, p) ==
    IF p.err # "" THEN Done(Exhausted, "execute", p.err, FALSE, <<>>, {})
    ELSE IF error.err # ""
    THEN exhaust(p.parser, Op("execute", "post", o.arg, error.text), {})
    ELSE Done(p.parser, "execute", "Ok", FALSE, <<>>, {})

\* Cursor::execute after its command returned the reply `vec`.
AfterCommand(o, vec) == Replied(o, detect_errors(vec), parse(vec))

\* A run_locked call of the cursor method returned Err(e).
AfterError(r, o, e, text, passed) == Done(r, o.name, e, FALSE, text, passed)

\* ------------------------------------------ writing.rs, delayed.rs: queue
\* A MapiBuf holds the messages already closed by queue_end() and the bytes
\* appended since.
QueueBuf(msgs, open) == [msgs |-> msgs, open |-> open]
EmptyBuf == QueueBuf(<<>>, <<>>)
queue_append(b, data) == [b EXCEPT !.open = @ \o data]
queue_end(b) == QueueBuf(b.msgs \o <<b.open>>, <<>>)
\* MapiBuf::reset: the bytes to write; a block left open keeps its dummy header.
queue_reset(b) == IF b.open = <<>> THEN b.msgs ELSE b.msgs \o << <<T("0xFFFF")>> \o b.open >>

\* DelayedCommands::add
add(d, descr, cmd) ==
    LET written == queue_append(d.buffer, cmd)
        line == IF written.open[Len(written.open)] # NL
                THEN queue_append(written, <<NL>>) ELSE written
    IN [buffer |-> queue_end(line), responses |-> d.responses \o <<descr>>]

\* DelayedCommands::add_xcommand
add_xcommand(d, command, value) == add(d, command, <<T("X" \o command), N(value)>>)

\* A send_delayed_plus that writes the extra message ahead of the queue.
write_reset_plus_ahead(b, extra) == <<extra>> \o queue_reset(b)

\* MapiBuf::write_reset_plus: what send_delayed_plus writes to the socket.
write_reset_plus(b, extra) == queue_reset(queue_end(queue_append(b, extra)))

\* A recv_delayed that leaves the acknowledgements unread.
recv_delayed_unread(responses, inbox) ==
    [err |-> "", text |-> <<>>, inbox |-> inbox]

RECURSIVE recv_delayed(_, _)
\* DelayedCommands::recv_delayed_inner: one message per expected response.
recv_delayed(responses, inbox) ==
    IF responses = <<>> THEN [err |-> "", text |-> <<>>, inbox |-> inbox]
    ELSE LET buffer == Head(inbox)
         IN IF buffer # <<>> /\ buffer[1] = BANG
            THEN [err |-> "Server",
                  text |-> <<T("delayed"), T(Head(responses))>> \o Tail(buffer),
                  inbox |-> Tail(inbox)]
            ELSE recv_delayed(Tail(responses), Tail(inbox))

\* ------------------------------------------------------------ history
NoHist == [partial |-> FALSE, closes |-> 0, passed |-> FALSE]
\* Result ids the server can hand out.
Ids == 1..(2 * MaxExec)

\* Whether the parser states r and q hold the same result set.
SameResultSet(r, q) ==
    r.kind = "Data" /\ q.kind = "Data" /\ r.rs.result_id = q.rs.result_id

\* A cursor's thread takes the step `x`; `h` is the history before it and
\* `sent` the Xexports it sent in this step.
Apply(c, x, h, sent) ==
    /\ fetched' = [fetched EXCEPT ![c] =
                     IF SameResultSet(replies[c], x.replies) THEN @ \o sent ELSE <<>>]
    /\ erred' = [erred EXCEPT ![c] =
                   @ \/ (x.pc = "idle" /\ x.ret.name = "execute" /\ x.ret.kind = "Server")]
    /\ replies' = [replies EXCEPT ![c] = x.replies]
    /\ pc' = [pc EXCEPT ![c] = x.pc]
    /\ op' = [op EXCEPT ![c] = x.op]
    /\ pend' = [pend EXCEPT ![c] = x.pend]
    /\ ret' = [ret EXCEPT ![c] = x.ret]
    /\ hist' = [id \in Ids |-> [h[id] EXCEPT !.passed = @ \/ id \in x.passed]]
    /\ trues' = [trues EXCEPT ![c] =
                   (IF SameResultSet(replies[c], x.replies) THEN @ ELSE 0)
                   + (IF x.pc = "idle" /\ x.ret.name = "next_row"
                         /\ x.ret.kind = "Ok" /\ x.ret.val THEN 1 ELSE 0)]

\* ------------------------------------------------------------------ Init
InitConn(sizes) ==
    /\ reply_size \in sizes
    /\ sock = TRUE
    /\ closing = FALSE
    /\ holder = 0
    /\ poisoned = FALSE
    /\ delayed = [buffer |-> EmptyBuf, responses |-> <<>>]
    /\ dropped = FALSE
    /\ results = <<>>
    /\ sockIn = <<>>
    /\ sockOut = [by |-> 0, msgs |-> <<>>, acks |-> <<>>]

\* The cursors in `made` exist; the others were never made.
InitCursors(made) ==
    /\ replies = [c \in Cursors |-> Exhausted]
    /\ pc = [c \in Cursors |-> IF c \in made THEN "idle" ELSE "gone"]
    /\ op = [c \in Cursors |-> NoOp]
    /\ pend = [c \in Cursors |-> NoPend]
    /\ ret = [c \in Cursors |-> Ret("", "", FALSE, <<>>)]
    /\ trues = [c \in Cursors |-> 0]
    /\ fetched = [c \in Cursors |-> <<>>]
    /\ erred = [c \in Cursors |-> FALSE]
    /\ hist = [id \in Ids |-> NoHist]
    /\ nexec = 0

\* What a read returned: the number of bytes delivered, or an error.
ReadReturn(n, err) == [n |-> n, err |-> err]

\* The codec is not exercised.
CodecOff ==
    /\ src = "" /\ m = <<>> /\ mb = with_buf /\ appended = 0 /\ nappend = 0
    /\ stream = <<>> /\ stage = "off" /\ mode = ""
    /\ rd = MapiReader(Start, 0) /\ out = <<>> /\ nread = 0
    /\ rres = ReadReturn(0, "") /\ round = 0 /\ limit = 0

\* What a turn of the loops came to, and the server's answer it came from.
Outcome(kind, reply) == [kind |-> kind, reply |-> reply]

\* establish_connection is not exercised.
LoginOff ==
    /\ parms = <<>> /\ where = "off" /\ hops = 0 /\ nsock = 0 /\ cur = <<>>
    /\ restarts = 0 /\ chal = <<>> /\ answer = <<>> /\ outcome = Outcome("", <<>>)
    /\ established = <<>>

\* No ReplyParser and no RowSet is exercised on its own.
ParseOff ==
    /\ sections = <<>> /\ parser = Exhausted /\ seen = <<>> /\ more = ""
    /\ wire = <<>> /\ win = <<>> /\ adv = "" /\ nadv = 0 /\ got = <<>>
    /\ conv = <<>>

\* --------------------------------------------------------- cursor methods
\* Cursor::execute, up to its first run_locked call.
Execute(c, stmt) ==
    /\ pc[c] = "idle"
    /\ nexec < app.execs
    /\ stmt \in app.stmts
    /\ nexec' = nexec + 1
    /\ Apply(c, exhaust(replies[c], Op("execute", "pre", stmt, <<>>), {}), hist, <<>>)
    /\ UNCHANGED <<connVars, serverVars, app>>
    /\ UNCHANGED <<codecVars, loginVars, parseVars>>

\* Cursor::next_reply, up to its run_locked call.
NextReply(c) ==
    /\ pc[c] = "idle"
    /\ Apply(c, next_reply(replies[c]), hist, <<>>)
    /\ UNCHANGED <<connVars, serverVars, nexec, app>>
    /\ UNCHANGED <<codecVars, loginVars, parseVars>>

\* A next_row that takes the connection's lock before it looks at its window.
NextRow_locking(c) ==
    /\ pc[c] = "idle"
    /\ holder = 0
    /\ Apply(c, skip_to_result_set(replies[c], {}), hist, <<>>)
    /\ UNCHANGED <<connVars, serverVars, nexec, app>>
    /\ UNCHANGED <<codecVars, loginVars, parseVars>>

\* Cursor::next_row, up to its run_locked call.
NextRow(c) ==
    /\ pc[c] = "idle"
    /\ Apply(c, skip_to_result_set(replies[c], {}), hist, <<>>)
    /\ UNCHANGED <<connVars, serverVars, nexec, app>>
    /\ UNCHANGED <<codecVars, loginVars, parseVars>>

\* Cursor::close and Drop for Cursor: do_close, up to its first run_locked call.
CloseCursor(c) ==
    /\ pc[c] = "idle"
    /\ Apply(c, exhaust(replies[c], Op("close", "", 0, <<>>), {}), hist, <<>>)
    /\ UNCHANGED <<connVars, serverVars, nexec, app>>
    /\ UNCHANGED <<codecVars, loginVars, parseVars>>

\* ------------------------------------------------- conn.rs: run_locked
Inside(want) ==
    CASE want = "want_close" -> "in_close"
      [] want = "want_cmd" -> "in_cmd"
      [] want = "want_fetch" -> "in_fetch"
      [] want = "want_flush" -> "in_flush"

Waiting == {"want_close", "want_cmd", "want_fetch", "want_flush"}

\* The result set whose Xclose a failed queue_close leaves unqueued.
Unqueued(c) == IF pc[c] = "want_close" THEN {pend[c].close} ELSE {}

\* A run_locked that unwraps the socket slot instead of reporting Closed.
LockEnter_unwrapping(c) ==
    /\ pc[c] \in Waiting
    /\ holder = 0
    /\ IF poisoned \/ ~sock
       THEN /\ Apply(c, Done(replies[c], op[c].name, "panic", FALSE, <<>>, {}), hist, <<>>)
            /\ UNCHANGED <<holder, sock>>
       ELSE /\ holder' = c
            /\ sock' = FALSE
            /\ pc' = [pc EXCEPT ![c] = Inside(pc[c])]
            /\ UNCHANGED <<replies, op, pend, ret, trues, fetched, erred, hist>>
    /\ UNCHANGED <<reply_size, closing, poisoned, delayed, dropped, serverVars, nexec, app>>
    /\ UNCHANGED <<codecVars, loginVars, parseVars>>

\* A run_locked that takes no lock and leaves the socket in its slot while the
\* closure uses it.
LockEnter_sharing(c) ==
    /\ pc[c] \in Waiting
    /\ sock
    /\ holder' = c
    /\ pc' = [pc EXCEPT ![c] = Inside(pc[c])]
    /\ UNCHANGED <<replies, op, pend, ret, trues, fetched, erred, hist>>
    /\ UNCHANGED <<reply_size, sock, closing, poisoned, delayed, dropped, serverVars,
                   nexec, app>>
    /\ UNCHANGED <<codecVars, loginVars, parseVars>>

\* run_locked up to the call of its closure: lock().unwrap(), sock.take().
LockEnter(c) ==
    /\ pc[c] \in Waiting
    /\ holder = 0
    /\ IF poisoned
       THEN /\ Apply(c, Done(replies[c], op[c].name, "panic", FALSE, <<>>, {}), hist, <<>>)
            /\ UNCHANGED <<holder, sock>>
       ELSE IF ~sock
       THEN /\ Apply(c, AfterError(replies[c], op[c], "Closed", <<>>, Unqueued(c)), hist, <<>>)
            /\ UNCHANGED <<holder, sock>>
       ELSE /\ holder' = c
            /\ sock' = FALSE
            /\ pc' = [pc EXCEPT ![c] = Inside(pc[c])]
            /\ UNCHANGED <<replies, op, pend, ret, trues, fetched, erred, hist>>
    /\ UNCHANGED <<reply_size, closing, poisoned, delayed, dropped, serverVars, nexec, app>>
    /\ UNCHANGED <<codecVars, loginVars, parseVars>>

\* A run_locked that puts the socket back whatever its closure returned.
Unlock_keeping(ok) ==
    /\ holder' = 0
    /\ sock' = TRUE
    /\ UNCHANGED <<reply_size, closing, poisoned, dropped>>

\* run_locked after its closure returned: the socket goes back on Ok only.
Unlock(ok) ==
    /\ holder' = 0
    /\ sock' = ok
    /\ UNCHANGED <<reply_size, closing, poisoned, dropped>>

\* Cursor::queue_close inside run_locked.
QueueClose(c) ==
    /\ pc[c] = "in_close"
    /\ holder = c
    /\ delayed' = add_xcommand(delayed, "close", pend[c].close)
    /\ Unlock(TRUE)
    /\ Apply(c, AfterQueueClose(op[c], pend[c]),
             [hist EXCEPT ![pend[c].close].closes = @ + 1], <<>>)
    /\ UNCHANGED <<serverVars, nexec, app>>
    /\ UNCHANGED <<codecVars, loginVars, parseVars>>

\* The state of a closure that has written and has yet to read.
Reading(inside) ==
    CASE inside = "in_cmd" -> "rd_cmd"
      [] inside = "in_fetch" -> "rd_fetch"
      [] inside = "in_flush" -> "rd_flush"

\* What the closure cursor c is in writes to the socket: send_delayed_plus
\* with the statement or the Xexport, or send_delayed in do_close.
Outgoing(c) ==
    CASE pc[c] = "in_cmd" ->
            write_reset_plus(delayed.buffer, <<T("s"), N(op[c].arg), T("\n;")>>)
      [] pc[c] = "in_fetch" ->
            write_reset_plus(delayed.buffer,
                             <<T("Xexport"),
                               N(decide_next_fetch(replies[c], reply_size).res_id),
                               N(decide_next_fetch(replies[c], reply_size).start),
                               N(decide_next_fetch(replies[c], reply_size).n)>>)
      [] OTHER -> queue_reset(delayed.buffer)

\* The messages `raw` are written in one write_all and the server has answered
\* them with `served`; the result sets it made hold `k` of their `total` rows
\* in the reply.
Wrote(c, raw, served, total, k) ==
    /\ sockOut' = [by |-> c, msgs |-> raw, acks |-> delayed.responses]
    /\ results' = served.results
    /\ sockIn' = sockIn \o served.replies
    /\ delayed' = [delayed EXCEPT !.buffer = EmptyBuf]
    /\ pc' = [pc EXCEPT ![c] = Reading(pc[c])]
    /\ hist' = [id \in Ids |->
                  IF id \in (Len(results) + 1)..Len(served.results)
                  THEN [hist[id] EXCEPT !.partial = k < total]
                  ELSE hist[id]]
    /\ UNCHANGED <<reply_size, sock, closing, holder, poisoned, dropped>>
    /\ UNCHANGED <<replies, op, pend, ret, trues, fetched, erred, nexec, app>>
    /\ UNCHANGED <<codecVars, loginVars, parseVars>>

\* The first half of the closures of Cursor::command and do_close: the write.
\* do_close writes only when responses are expected.
Send(c) ==
    /\ pc[c] \in {"in_cmd", "in_fetch", "in_flush"}
    /\ holder = c
    /\ pc[c] = "in_flush" => delayed.responses # <<>>
    /\ \E total \in (IF pc[c] = "in_cmd" THEN app.totals ELSE {0}) :
       \E k \in (IF pc[c] # "in_cmd" THEN {0}
                 ELSE IF reply_size = 0 THEN {total} ELSE 0..total) :
          Wrote(c, Outgoing(c), Serve(Outgoing(c), results, total, k), total, k)

\* MapiReader::to_end after recv_delayed returned `acks`.
to_end(acks) ==
    [err |-> acks.err, text |-> acks.text,
     vec |-> IF acks.err = "" THEN Head(acks.inbox) ELSE <<>>,
     inbox |-> IF acks.err = "" THEN Tail(acks.inbox) ELSE acks.inbox]

\* The second half of the closure of Cursor::command: recv_delayed, to_end.
Command(responses, inbox) == to_end(recv_delayed(responses, inbox))

\* The closure has read and returns: the expected responses are drained and
\* the socket goes back unless an error was returned.
Transfer(io) ==
    /\ sockIn' = io.inbox
    /\ delayed' = [buffer |-> EmptyBuf, responses |-> <<>>]
    /\ Unlock(io.err = "")
    /\ UNCHANGED <<results, sockOut>>

\* Cursor::execute after self.command returned `io`.
Executed(c, io) ==
    /\ Transfer(io)
    /\ IF io.err # ""
       THEN Apply(c, AfterError(Exhausted, op[c], io.err, io.text, {}), hist, <<>>)
       ELSE Apply(c, AfterCommand(op[c], io.vec), hist, <<>>)

\* Cursor::execute's command has written: it reads, and execute goes on.
ExecCommand(c) ==
    /\ pc[c] = "rd_cmd"
    /\ holder = c
    /\ Executed(c, Command(delayed.responses, sockIn))
    /\ UNCHANGED <<nexec, app>>
    /\ UNCHANGED <<codecVars, loginVars, parseVars>>

\* Cursor::fetch_more_rows after its command returned `io`, having sent the
\* Xexport `f`.
Fetched(c, f, io) ==
    /\ Transfer(io)
    /\ IF io.err # ""
       THEN Apply(c, AfterError(replies[c], op[c], io.err, io.text, {}), hist,
                  << <<f.start, f.n, trues[c]>> >>)
       ELSE Apply(c, fetch_more_rows(replies[c], io.vec), hist,
                  << <<f.start, f.n, trues[c]>> >>)

\* Cursor::fetch_more_rows's command has written: it reads, and next_row
\* goes on.
FetchCommand(c) ==
    /\ pc[c] = "rd_fetch"
    /\ holder = c
    /\ Fetched(c, decide_next_fetch(replies[c], reply_size),
               Command(delayed.responses, sockIn))
    /\ UNCHANGED <<nexec, app>>
    /\ UNCHANGED <<codecVars, loginVars, parseVars>>

\* do_close after recv_delayed returned `acks`.
Flushed(c, acks) ==
    /\ Transfer([err |-> acks.err, inbox |-> acks.inbox])
    /\ Apply(c, Done(Exhausted, "close", IF acks.err = "" THEN "Ok" ELSE acks.err,
                     FALSE, acks.text, {}), hist, <<>>)

\* Cursor::do_close's closure: nothing to do when no response is expected,
\* recv_delayed after send_delayed otherwise.
Flush(c) ==
    /\ holder = c
    /\ \/ /\ pc[c] = "in_flush"
          /\ delayed.responses = <<>>
          /\ Unlock(TRUE)
          /\ Apply(c, Done(Exhausted, "close", "Ok", FALSE, <<>>, {}), hist, <<>>)
          /\ UNCHANGED <<delayed, serverVars>>
       \/ /\ pc[c] = "rd_flush"
          /\ Flushed(c, recv_delayed(delayed.responses, sockIn))
    /\ UNCHANGED <<nexec, app>>
    /\ UNCHANGED <<codecVars, loginVars, parseVars>>

\* The closure of a run_locked call panics: unwinding drops the guard, which
\* poisons the mutex, and the socket the closure held.
PanicInLock(c) ==
    /\ holder = c
    /\ holder' = 0
    /\ poisoned' = TRUE
    /\ pc' = [pc EXCEPT ![c] = "panicked"]
    /\ ret' = [ret EXCEPT ![c] = Ret(op[c].name, "panic", FALSE, <<>>)]
    /\ UNCHANGED <<reply_size, sock, closing, delayed, dropped, serverVars,
                   replies, op, pend, trues, fetched, erred, hist, nexec, app>>
    /\ UNCHANGED <<codecVars, loginVars, parseVars>>

\* Connection::close / Drop for Connection: close_connection.
CloseConnection ==
    /\ ~dropped
    /\ dropped' = TRUE
    /\ closing' = TRUE
    /\ sock' = IF holder = 0 THEN FALSE ELSE sock
    /\ UNCHANGED <<reply_size, holder, poisoned, delayed, serverVars, cursorVars>>
    /\ UNCHANGED <<codecVars, loginVars, parseVars>>

\* ------------------------------------------------------------------ Next
vars == <<connVars, serverVars, cursorVars, codecVars, loginVars, parseVars>>

\* One cursor running any of the statements.
Init ==
    /\ InitConn(ReplySizes)
    /\ CodecOff
    /\ LoginOff
    /\ ParseOff
    /\ InitCursors({1})
    /\ app = [stmts |-> 1..Len(Scripts), totals |-> 0..MaxRows, execs |-> MaxExec]

Next ==
    \/ \E c \in Cursors : \E stmt \in 1..Len(Scripts) : Execute(c, stmt)
    \/ \E c \in Cursors : NextReply(c)
    \/ \E c \in Cursors : NextRow(c)
    \/ \E c \in Cursors : CloseCursor(c)
    \/ \E c \in Cursors : LockEnter(c)
    \/ \E c \in Cursors : QueueClose(c)
    \/ \E c \in Cursors : Send(c)
    \/ \E c \in Cursors : ExecCommand(c)
    \/ \E c \in Cursors : FetchCommand(c)
    \/ \E c \in Cursors : Flush(c)
    \/ \E c \in Cursors : PanicInLock(c)
    \/ CloseConnection

Spec == Init /\ [][Next]_vars

\* One cursor running the statement with two result sets once, on a thread
\* that is never held up for ever.  A cursor that
\* waits for the free lock gets it, and the closure of fetch_more_rows, which
\* can always take its next step (the write and the read return, with an
\* error if not with a reply), does not stay before its write or before its
\* read for ever.
InitFair ==
    /\ InitConn(ReplySizes)
    /\ CodecOff
    /\ LoginOff
    /\ ParseOff
    /\ InitCursors({1})
    /\ app = [stmts |-> {2}, totals |-> 0..MaxRows, execs |-> 1]

SpecFair ==
    /\ InitFair /\ [][Next]_vars
    /\ \A c \in Cursors :
          /\ WF_vars(LockEnter(c))
          /\ []<>(pc[c] # "in_fetch")
          /\ []<>(pc[c] # "rd_fetch")

\* Two cursors of one connection, each on a thread of its own, running two
\* statements with two result sets of SharedRows rows between them.
SharedRows == 1
InitShared ==
    /\ InitConn({1})
    /\ CodecOff
    /\ LoginOff
    /\ ParseOff
    /\ InitCursors(Cursors)
    /\ app = [stmts |-> {2}, totals |-> {SharedRows}, execs |-> Cardinality(Cursors)]

SpecShared == InitShared /\ [][Next]_vars

\* Cursor::row_set and a getter made by getter!: the field of the current
\* row, None before the first row, or NoResultSet.
getter(r) ==
    IF r.kind = "Data"
    THEN Ret("get", "Ok", r.rs.row_set.fields # NoFields, <<r.rs.row_set.fields>>)
    ELSE Ret("get", "NoResultSet", FALSE, <<>>)

\* The application calls a getter of cursor c.
Getter(c) ==
    /\ pc[c] = "idle"
    /\ ret' = [ret EXCEPT ![c] = getter(replies[c])]
    /\ UNCHANGED <<replies, pc, op, pend, trues, fetched, erred, hist, nexec, app>>
    /\ UNCHANGED <<connVars, serverVars, codecVars, loginVars, parseVars>>

\* Two cursors of one connection, each on a thread of its own, running the
\* statement with one result set of GetterRows rows, one row to a reply.
GetterRows == 2
InitGetters ==
    /\ InitConn({1})
    /\ CodecOff
    /\ LoginOff
    /\ ParseOff
    /\ InitCursors(Cursors)
    /\ app = [stmts |-> {1}, totals |-> {GetterRows}, execs |-> Cardinality(Cursors)]

\* The two cursors with their getters.
NextGetters ==
    \/ Next
    \/ \E c \in Cursors : Getter(c)

SpecGetters == InitGetters /\ [][NextGetters]_vars

\* A connection fresh from a login that left responses to its delayed
\* commands expected: they were written at login and the server's answers are
\* on their way, each one empty or an error.  One cursor runs the statement
\* with two result sets up to DelayedExecs times.
DelayedExecs == 2
LoginLabels == {<<>>, <<"size_header">>, <<"size_header", "ClientInfo">>}
LoginAcks(n) == [1..n -> {<<>>, <<BANG, T("refused"), NL>>}]
InitDelayed ==
    /\ reply_size = 1
    /\ sock = TRUE /\ closing = FALSE /\ holder = 0 /\ poisoned = FALSE
    /\ dropped = FALSE
    /\ \E labels \in LoginLabels :
          /\ delayed = [buffer |-> EmptyBuf, responses |-> labels]
          /\ sockIn \in LoginAcks(Len(labels))
    /\ results = <<>>
    /\ sockOut = [by |-> 0, msgs |-> <<>>, acks |-> <<>>]
    /\ CodecOff
    /\ LoginOff
    /\ ParseOff
    /\ InitCursors({1})
    /\ app = [stmts |-> {2}, totals |-> {2}, execs |-> DelayedExecs]

SpecDelayed == InitDelayed /\ [][Next]_vars

\* The same connection shared by two cursors, each on a thread of its own,
\* running the statement with one result set of SharedRows rows.
InitRefused ==
    /\ reply_size = 1
    /\ sock = TRUE /\ closing = FALSE /\ holder = 0 /\ poisoned = FALSE
    /\ dropped = FALSE
    /\ \E labels \in LoginLabels :
          /\ delayed = [buffer |-> EmptyBuf, responses |-> labels]
          /\ sockIn \in LoginAcks(Len(labels))
    /\ results = <<>>
    /\ sockOut = [by |-> 0, msgs |-> <<>>, acks |-> <<>>]
    /\ CodecOff
    /\ LoginOff
    /\ ParseOff
    /\ InitCursors(Cursors)
    /\ app = [stmts |-> {1}, totals |-> {SharedRows}, execs |-> DelayedExecs]

SpecRefused == InitRefused /\ [][Next]_vars

\* ------------------------------------------------------- the block codec
\* Most append() calls before the rest of the message is appended at once.
MaxAppends == 3
\* Most short reads before the reader reads, and the transport delivers, as
\* much as it can.
MaxReads == 4

\* A message of n bytes.
Bytes(n) == [i \in 1..n |-> i % 251]
Lengths == {0, 1, BLOCKSIZE - 1, BLOCKSIZE, BLOCKSIZE + 1, 2 * BLOCKSIZE, 2 * BLOCKSIZE + 1}
ChunkSizes == {0, 1, BLOCKSIZE - 1, BLOCKSIZE}
FeedSizes == {1, 2, BLOCKSIZE}
\* The message that follows on the transport, and its bytes on the wire.
Second == <<115, 59>>
Following == reset(end(append(with_buf, Second))).raw
\* Streams no MapiBuf produces: oversized headers, empty blocks.
ForeignStreams ==
    { <<255, 255>>, <<254, 63>>, <<255, 63>>, <<253, 63, 65>>,
      <<1, 0>>, <<0, 0>>, <<0, 0, 0, 0, 1, 0>>, <<0, 0, 254, 63>>,
      <<0, 0, 3, 0, 65>>, <<2, 0, 65, 255, 255>> }

InitCodec ==
    /\ InitConn({0})
    /\ LoginOff
    /\ ParseOff
    /\ InitCursors({})
    /\ app = [stmts |-> {}, totals |-> {}, execs |-> 0]
    /\ src \in {"writer", "foreign"}
    /\ mode \in {"blocks", "reader"}
    /\ IF src = "writer"
       THEN m \in {Bytes(n) : n \in Lengths} /\ stream = <<>> /\ stage = "write"
       ELSE m = <<>> /\ stream \in ForeignStreams /\ stage = "read"
    /\ mb = with_buf /\ appended = 0 /\ nappend = 0
    /\ rd = MapiReader(Start, 0) /\ out = <<>> /\ nread = 0
    /\ rres = ReadReturn(0, "") /\ round = 1 /\ limit = 0

\* How many bytes a call takes: `size`, or all `left` when `all` is set.
Take(size, all, left) == IF all THEN left ELSE size

\* MapiBuf::append of the next bytes of the message.
AppendBytes(size, all) ==
    /\ stage = "write"
    /\ all => size = 0
    /\ Take(size, all, Len(m) - appended) <= Len(m) - appended
    /\ nappend < MaxAppends \/ (all /\ appended < Len(m))
    /\ mb' = append(mb, SubSeq(m, appended + 1,
                               appended + Take(size, all, Len(m) - appended)))
    /\ appended' = appended + Take(size, all, Len(m) - appended)
    /\ nappend' = Min(nappend + 1, MaxAppends)
    /\ UNCHANGED <<src, m, stream, stage, mode, rd, out, nread, rres, round, limit>>
    /\ UNCHANGED <<connVars, serverVars, cursorVars, loginVars, parseVars>>

\* MapiBuf::end once the whole message is in.
EndMessage ==
    /\ stage = "write"
    /\ appended = Len(m)
    /\ mb' = end(mb)
    /\ stage' = "ended"
    /\ UNCHANGED <<src, m, appended, nappend, stream, mode, rd, out, nread, rres, round, limit>>
    /\ UNCHANGED <<connVars, serverVars, cursorVars, loginVars, parseVars>>

\* MapiBuf::reset and write_all: the bytes go on the transport, where those
\* of the next message follow them.
Reset ==
    /\ stage = "ended"
    /\ stream' = reset(mb).raw \o (IF mode = "reader" THEN Following ELSE <<>>)
    /\ mb' = reset(mb).mb
    /\ stage' = "read"
    /\ UNCHANGED <<src, m, appended, nappend, mode, rd, out, nread, rres, round, limit>>
    /\ UNCHANGED <<connVars, serverVars, cursorVars, loginVars, parseVars>>

RECURSIVE steps(_, _, _)
\* BlockState::interpret applied to a slice until the slice is used up, as the
\* helper `step` of the tests does: the payload found is added to `found`.
steps(st, data, found) ==
    IF data = <<>> THEN [err |-> "", state |-> st, out |-> found]
    ELSE LET r == interpret(st, data)
         IN IF r.err # "" THEN [err |-> r.err, state |-> st, out |-> found]
            ELSE steps(r.state, Drop(data, r.end),
                       found \o SubSeq(data, r.start + 1, r.end))

\* The next bytes of the stream are handed to the BlockState.
Feed(size, all) ==
    /\ stage = "read" /\ mode = "blocks"
    /\ all => size = 1
    /\ rd.pos < Len(stream)
    /\ Take(size, all, Len(stream) - rd.pos) <= Len(stream) - rd.pos
    /\ nread < MaxReads \/ all
    /\ LET n == Take(size, all, Len(stream) - rd.pos)
           r == steps(rd.state, SubSeq(stream, rd.pos + 1, rd.pos + n), out)
       IN /\ rd' = MapiReader(r.state, rd.pos + n)
          /\ out' = r.out
          /\ rres' = ReadReturn(Len(r.out) - Len(out), r.err)
          /\ stage' = IF r.err = "" THEN "read" ELSE "failed"
    /\ nread' = Min(nread + 1, MaxReads)
    /\ UNCHANGED <<src, m, mb, appended, nappend, stream, mode, round, limit>>
    /\ UNCHANGED <<connVars, serverVars, cursorVars, loginVars, parseVars>>

\* MapiReader::read into a buffer of buflen bytes; the transport delivers at
\* most k bytes per read.
Read(buflen, k) ==
    /\ stage = "read" /\ mode = "reader"
    /\ nread < MaxReads \/ (buflen = BLOCKSIZE + 2 /\ k = BLOCKSIZE + 2)
    /\ LET r == do_read(rd, stream, buflen, k)
       IN /\ rd' = r.rd
          /\ out' = out \o r.bytes
          /\ rres' = ReadReturn(Len(r.bytes), r.err)
          /\ stage' = IF r.err = "" THEN "read" ELSE "failed"
    /\ nread' = Min(nread + 1, MaxReads)
    /\ UNCHANGED <<src, m, mb, appended, nappend, stream, mode, round, limit>>
    /\ UNCHANGED <<connVars, serverVars, cursorVars, loginVars, parseVars>>

\* MapiReader::finish at the end of the message, and MapiReader::new on the
\* transport it hands back.
NewReader ==
    /\ stage = "read" /\ mode = "reader"
    /\ rd.state = End
    /\ round = 1
    /\ round' = 2
    /\ rd' = MapiReader(Start, rd.pos)
    /\ out' = <<>>
    /\ nread' = 0
    /\ rres' = ReadReturn(0, "")
    /\ UNCHANGED <<src, m, mb, appended, nappend, stream, stage, mode, limit>>
    /\ UNCHANGED <<connVars, serverVars, cursorVars, loginVars, parseVars>>

NextCodec ==
    \/ \E size \in ChunkSizes : \E all \in BOOLEAN : AppendBytes(size, all)
    \/ EndMessage
    \/ Reset
    \/ \E size \in FeedSizes : \E all \in BOOLEAN : Feed(size, all)
    \/ \E buflen \in {1, 2, BLOCKSIZE + 2} : \E k \in {1, BLOCKSIZE + 2} : Read(buflen, k)
    \/ NewReader

SpecCodec == InitCodec /\ [][NextCodec]_vars

\* ------------------------------------------------------- the bounded read
\* Most bytes of a message read with a limit, most blocks it comes in, and
\* the greatest limit.
MaxPayload == 3
MaxBlocks == 3
MaxLimit == 2

\* The ways to split n bytes over up to MaxBlocks blocks, empty ones included.
RECURSIVE Sum(_)
Sum(sizes) == IF sizes = <<>> THEN 0 ELSE Head(sizes) + Sum(Tail(sizes))
Splits(n) ==
    {sizes \in UNION {[1..b -> 0..n] : b \in 1..MaxBlocks} : Sum(sizes) = n}

RECURSIVE Framed(_, _, _, _)
\* Blocks i .. of the message on the wire; `at` bytes went into the blocks
\* before, and the last block carries the flag.
Framed(msg, sizes, i, at) ==
    IF i > Len(sizes) THEN <<>>
    ELSE Header_new(sizes[i], i = Len(sizes))
         \o SubSeq(msg, at + 1, at + sizes[i])
         \o Framed(msg, sizes, i + 1, at + sizes[i])

\* MapiReader::new on a transport that holds the message and the one that
\* follows it, and take(limit).
InitLimited ==
    /\ InitConn({0})
    /\ LoginOff
    /\ ParseOff
    /\ InitCursors({})
    /\ app = [stmts |-> {}, totals |-> {}, execs |-> 0]
    /\ src = "foreign" /\ mode = "limited" /\ stage = "read"
    /\ m \in {Bytes(n) : n \in 0..MaxPayload}
    /\ stream \in {Framed(m, sizes, 1, 0) \o Following : sizes \in Splits(Len(m))}
    /\ limit \in 1..MaxLimit
    /\ mb = with_buf /\ appended = 0 /\ nappend = 0
    /\ rd = MapiReader(Start, 0) /\ out = <<>> /\ nread = 0
    /\ rres = ReadReturn(0, "") /\ round = 1

\* Take::read after the reader returned `r`: the limit goes down by what was
\* read; read_to_string stops at the first read of no bytes.
Taken(r) ==
    /\ rd' = r.rd
    /\ out' = out \o r.bytes
    /\ limit' = limit - Len(r.bytes)
    /\ rres' = ReadReturn(Len(r.bytes), r.err)
    /\ stage' = IF r.err # "" THEN "failed"
                ELSE IF r.bytes = <<>> THEN "taken" ELSE "read"

\* One read of read_to_string through take(limit), into `buflen` spare bytes:
\* Take passes at most `limit` of them on, and nothing when the limit is used
\* up.
LimitedRead(buflen, k) ==
    /\ stage = "read" /\ mode = "limited"
    /\ Taken(do_read(rd, stream, Min(buflen, limit), k))
    /\ nread' = Min(nread + 1, MaxReads)
    /\ UNCHANGED <<src, m, mb, appended, nappend, stream, mode, round>>
    /\ UNCHANGED <<connVars, serverVars, cursorVars, loginVars, parseVars>>

\* MapiReader::to_limited_string after read_to_string returned: finish() when
\* the reader is in state End, the error otherwise.
to_limited_string(state) == IF state = End THEN "ok" ELSE "too long"

LimitedEnd ==
    /\ stage = "taken" /\ mode = "limited"
    /\ stage' = to_limited_string(rd.state)
    /\ UNCHANGED <<src, m, mb, appended, nappend, stream, mode, rd, out, nread,
                   rres, round, limit>>
    /\ UNCHANGED <<connVars, serverVars, cursorVars, loginVars, parseVars>>

NextLimited ==
    \/ \E buflen \in {1, 2, BLOCKSIZE + 2} : \E k \in {1, BLOCKSIZE + 2} :
          LimitedRead(buflen, k)
    \/ LimitedEnd

SpecLimited == InitLimited /\ [][NextLimited]_vars

\* ------------------------------------- framing/connecting.rs: the handshake
\* Passwords, salts and digests are byte strings: sequences of chunks. A chunk
\* is a run of plain bytes, or the hex digits of the digest of a byte string.
Byte(ch) == [c |-> ch, of |-> <<>>]
Digest(algo, bytes) == [c |-> algo, of |-> bytes]

\* hex::encode(hasher.finalize()) after hasher.update(bytes)
hex_digest(algo, bytes) == <<Digest(algo, bytes)>>

\* str::starts_with, on strings cut into the same chunks
starts_with(s, prefix) == Len(prefix) <= Len(s) /\ SubSeq(s, 1, Len(prefix)) = prefix

\* The marker '\u{0001}' of a password that is already hashed.
Marker == Byte("\\u{0001}")

\* hash_algorithms::find_algo: the first name of the list that is supported.
Supported == {"RIPEMD160", "SHA512", "SHA384", "SHA256", "SHA224"}
find_algo(names) ==
    LET i == FirstIndex(1, Len(names), LAMBDA j : names[j].k \in Supported)
    IN IF i = 0 THEN "" ELSE names[i].k

\* One item of a comma-separated field of the challenge: a word, or key=value.
Item(k) == [k |-> k, v |-> 0]
KeyValue(k, v) == [k |-> k, v |-> v]

\* Challenge::new on the fields of the line, split at ':'. A level that does
\* not parse as a number is written -1.
Challenge_new(line) ==
    IF Len(line) < 2 THEN [err |-> "InvalidChallenge"]
    ELSE IF Len(line) < 3 \/ line[3] # <<Item("9")>> THEN [err |-> "InvalidChallenge"]
    ELSE IF Len(line) < 4 THEN [err |-> "InvalidChallenge"]
    ELSE IF Len(line) < 5 \/ line[5] \notin {<<Item("BIG")>>, <<Item("LIT")>>}
    THEN [err |-> "InvalidChallenge"]
    ELSE IF Len(line) < 6 THEN [err |-> "InvalidChallenge"]
    ELSE IF Len(line) >= 7 /\ \E i \in 1..Len(line[7]) :
                                 line[7][i].k = "sql" /\ line[7][i].v < 0
    THEN [err |-> "InvalidChallenge"]
    ELSE IF Len(line) >= 8 /\ (Len(line[8]) # 1 \/ line[8][1].k # "BINARY")
    THEN [err |-> "InvalidChallenge"]
    ELSE IF Len(line) >= 9 /\ (Len(line[9]) # 1 \/ line[9][1].k # "OOBINTR")
    THEN [err |-> "InvalidChallenge"]
    ELSE IF Len(line) >= 10 /\ line[10] # <<Item("CLIENTINFO")>>
    THEN [err |-> "InvalidChallenge"]
    ELSE [err |-> "",
          salt |-> <<Byte(line[1][1].k)>>,
          server_type |-> line[2][1].k,
          response_algos |-> line[4],
          prehash_algo |-> line[6],
          sql_handshake_option_level |->
              IF Len(line) >= 7 /\ \E i \in 1..Len(line[7]) : line[7][i].k = "sql"
              THEN line[7][CHOOSE i \in 1..Len(line[7]) :
                             /\ line[7][i].k = "sql"
                             /\ \A j \in (i + 1)..Len(line[7]) : line[7][j].k # "sql"].v
              ELSE 0,
          clientinfo |-> Len(line) >= 10]

\* ServerState::default (framing/mod.rs)
DefaultState == [initial_auto_commit |-> TRUE, reply_size |-> 100, time_zone_seconds |-> 0]

\* One call of the closure `arrange`: a handshake option, its level and the
\* command that sets it after login.
Arrange(lvl, key, value, cmd) == [lvl |-> lvl, key |-> key, value |-> value, cmd |-> cmd]

\* The calls of `arrange` challenge_response makes, in order.
Arranged(p) ==
    IF p.language # "sql" THEN <<>> ELSE
    (IF DefaultState.initial_auto_commit # p.autocommit
     THEN <<Arrange(1, "auto_commit", IF p.autocommit THEN 1 ELSE 0,
                    <<T("Xauto_commit"), N(IF p.autocommit THEN 1 ELSE 0)>>)>>
     ELSE <<>>)
    \o (IF DefaultState.reply_size # p.replysize
        THEN <<Arrange(2, "reply_size", p.replysize,
                       <<T("Xreply_size"), N(p.replysize)>>)>>
        ELSE <<>>)
    \o <<Arrange(3, "size_header", 1, <<T("Xsizeheader"), N(1)>>)>>
    \o (IF DefaultState.time_zone_seconds # p.connect_timezone_seconds
        THEN <<Arrange(5, "time_zone", p.connect_timezone_seconds,
                       <<T("sSET TIME ZONE INTERVAL"),
                         N(p.connect_timezone_seconds \div 60), T(";")>>)>>
        ELSE <<>>)

\* Handshake options up to and including the server's level.
handshake_options_upto(calls, level_limit) ==
    SelectSeq(calls, LAMBDA o : o.lvl <= level_limit)

\* The handshake options that fit in the response: key=value, in order.
handshake_options(calls, level_limit) ==
    SelectSeq(calls, LAMBDA o : o.lvl < level_limit)

RECURSIVE arrange_delayed(_, _, _)
\* The DelayedCommands after the calls of `arrange`: delayed.add(cmd) for
\* every option at or above the server's level.
arrange_delayed(d, calls, level_limit) ==
    IF calls = <<>> THEN d
    ELSE arrange_delayed(IF Head(calls).lvl < level_limit THEN d
                         ELSE add(d, Head(calls).key, Head(calls).cmd),
                         Tail(calls), level_limit)

\* The Xclientinfo message written to delayed.buffer, ended, and its
\* ExpectedResponse pushed.
with_clientinfo(d) ==
    [buffer |-> queue_end(queue_append(d.buffer,
                    <<T("Xclientinfo"), T("ClientLibrary=monetdb-rs"), NL,
                      T("ClientPid="), N(1), NL>>)),
     responses |-> d.responses \o <<"ClientInfo">>]

\* challenge_response: the user and password the response is made for.
credentials(p, ch) ==
    IF ch.server_type = "merovingian"
    THEN [user |-> "merovingian", password |-> <<>>]
    ELSE [user |-> p.user, password |-> p.password]

\* challenge_response: prehashed_password
prehashed_password(password, ch) ==
    IF starts_with(password, <<Marker>>) THEN password
    ELSE hex_digest(find_algo(ch.prehash_algo), password)

\* challenge_response: the response line, the ServerState and the
\* DelayedCommands.
challenge_response(p, ch) ==
    LET cred == credentials(p, ch)
        algo_name == find_algo(ch.response_algos)
        calls == Arranged(p)
        level_limit == ch.sql_handshake_option_level
        queued == arrange_delayed([buffer |-> EmptyBuf, responses |-> <<>>],
                                  calls, level_limit)
    IN IF ~starts_with(cred.password, <<Marker>>) /\ find_algo(ch.prehash_algo) = ""
       THEN [err |-> "UnsupportedHashAlgo"]
       ELSE IF algo_name = "" THEN [err |-> "UnsupportedHashAlgo"]
       ELSE [err |-> "",
             response |->
                 [user |-> cred.user,
                  algo_name |-> algo_name,
                  hashed_password |->
                      hex_digest(algo_name,
                                 prehashed_password(cred.password, ch) \o ch.salt),
                  language |-> p.language,
                  database |-> p.database,
                  options |-> handshake_options(calls, level_limit)],
             state |-> IF p.language = "sql"
                       THEN [initial_auto_commit |-> p.autocommit,
                             reply_size |-> p.replysize,
                             time_zone_seconds |-> p.connect_timezone_seconds]
                       ELSE DefaultState,
             delayed |-> IF ch.clientinfo /\ p.client_info /\ p.language = "sql"
                         THEN with_clientinfo(queued) ELSE queued]

\* A line of the server's answer to the response: what it starts with, and
\* the rest of the line.
Line(lead, body) == [lead |-> lead, body |-> body]

\* A process_redirects that knows no proxy: every '^' line is a redirect.
process_redirects_redirecting(reply) ==
    IF reply = <<>> \/ reply[1].lead = "=OK" THEN [err |-> "", login |-> "Complete", url |-> <<>>]
    ELSE IF reply[1].lead = "^"
    THEN [err |-> "", login |-> "Redirect", url |-> reply[1].body]
    ELSE IF reply[1].lead = "!" THEN [err |-> "Rejected", login |-> "", url |-> <<>>]
    ELSE IF reply[1].lead = "#" THEN [err |-> "", login |-> "Complete", url |-> <<>>]
    ELSE [err |-> "UnexpectedResponse", login |-> "", url |-> <<>>]

\* process_redirects on the lines of the trimmed reply.
process_redirects(reply) ==
    IF reply = <<>> \/ reply[1].lead = "=OK" THEN [err |-> "", login |-> "Complete", url |-> <<>>]
    ELSE IF reply[1].lead = "^"
    THEN (IF starts_with(reply[1].body, <<"mapi:", "merovingian://", "proxy">>)
          THEN [err |-> "", login |-> "Restart", url |-> <<>>]
          ELSE [err |-> "", login |-> "Redirect", url |-> reply[1].body])
    ELSE IF reply[1].lead = "!" THEN [err |-> "Rejected", login |-> "", url |-> <<>>]
    ELSE IF reply[1].lead = "#" THEN [err |-> "", login |-> "Complete", url |-> <<>>]
    ELSE [err |-> "UnexpectedResponse", login |-> "", url |-> <<>>]

\* ------------------------------------------- parms: Parameters, Validated
\* Parameters::boundary: a user name set without a password resets the
\* password, a password set without a user name resets the user name.
boundary(p) ==
    [p EXCEPT !.password = IF p.user_changed /\ ~p.password_changed THEN <<>> ELSE @,
              !.user = IF ~p.user_changed /\ p.password_changed THEN "" ELSE @,
              !.user_changed = FALSE,
              !.password_changed = FALSE]

\* urlparser.rs, parse_monetdb_url: monetdb://host/database, monetdbs://...
parse_monetdb_url(p, use_tls, url) ==
    [err |-> "",
     parms |-> [p EXCEPT !.tls = use_tls,
                         !.host = IF url[2] = "localhost" THEN "" ELSE url[2],
                         !.database = url[3]]]

\* urlparser.rs, parse_legacy_url: mapi:monetdb://host/database
parse_legacy_url(p, url) ==
    [err |-> "", parms |-> [p EXCEPT !.host = url[3], !.database = url[4]]]

\* urlparser.rs, parse_any_url
parse_any_url(p, url) ==
    IF starts_with(url, <<"monetdb://">>) THEN parse_monetdb_url(p, FALSE, url)
    ELSE IF starts_with(url, <<"monetdbs://">>) THEN parse_monetdb_url(p, TRUE, url)
    ELSE IF starts_with(url, <<"mapi:", "monetdb://">>) THEN parse_legacy_url(p, url)
    ELSE [err |-> "Parm", parms |-> p]

\* Parameters::apply_url
apply_url(p, url) ==
    [err |-> parse_any_url(boundary(p), url).err,
     parms |-> boundary(parse_any_url(boundary(p), url).parms)]

\* Validated::new: rule 7 on the database name, and the virtual parameters
\* connect_unix and connect_tcp.
validate(p) ==
    [err |-> IF p.database = "-demo" THEN "Parm" ELSE "",
     tls |-> p.tls,
     connect_unix |-> IF p.tls \/ p.host # "" THEN "" ELSE "/tmp/.s.monetdb.50000",
     connect_tcp |-> IF p.host = "" THEN "localhost" ELSE p.host,
     user |-> p.user,
     password |-> p.password,
     language |-> p.language,
     database |-> p.database,
     autocommit |-> p.autocommit,
     replysize |-> p.replysize,
     client_info |-> p.client_info,
     connect_timezone_seconds |-> p.timezone * 60]

\* connect_socket; `up` tells which of the endpoints accept a connection.
connect_socket(v, up) ==
    IF v.tls THEN [err |-> "TlsNotSupported", to |-> ""]
    ELSE IF v.connect_unix # "" /\ "unix" \in up THEN [err |-> "", to |-> v.connect_unix]
    ELSE IF v.connect_tcp # "" /\ "tcp" \in up THEN [err |-> "", to |-> v.connect_tcp]
    ELSE [err |-> "IO", to |-> ""]

\* -------------------------------------------- the servers being logged in to
\* The account the servers know: its user name and plaintext password.
ServerUser == "monetdb"
Plain == <<Byte("monetdb")>>

\* Whether a server that sent the challenge `ch` accepts the response: it
\* compares with the hash of its stored password hash followed by the salt.
Accepts(response, ch) ==
    /\ response.user = ServerUser
    /\ response.hashed_password =
          hex_digest(response.algo_name,
                     hex_digest(find_algo(ch.prehash_algo), Plain) \o ch.salt)

\* Redirects a server can answer with.
ProxyUrl == <<"mapi:", "merovingian://", "proxy", "?database=demo">>
RedirectUrls ==
    { <<"mapi:", "monetdb://", "b", "demo">>,
      <<"monetdb://", "localhost", "demo">>,
      <<"monetdbs://", "b", "demo">>,
      <<"mapi:", "monetdb://", "b", "-demo">>,
      <<"mapi:", "merovingian://", "elsewhere", "">>,
      ProxyUrl }

\* What a server does with a response: answer with a redirect, or check the
\* credentials and answer in one of the forms of an accepted login, or
\* answer something else.
Behaviour(kind, url) == [kind |-> kind, url |-> url]
Behaviours ==
    {Behaviour(k, <<>>) : k \in {"=OK", "#", "", "?"}}
    \cup {Behaviour("^", u) : u \in RedirectUrls}

\* The server's answer to the response, as trimmed lines.
ServerReply(b, response, ch) ==
    IF b.kind = "^" THEN <<Line("^", b.url), Line("^", <<"monetdb://", "c", "demo">>)>>
    ELSE IF b.kind = "?" THEN <<Line("?", <<>>)>>
    ELSE IF ~Accepts(response, ch) THEN <<Line("!", <<"InvalidCredentials">>)>>
    ELSE IF b.kind = "" THEN <<>>
    ELSE <<Line(b.kind, <<>>)>>

\* The challenges a server can send, as fields of items.
ChallengeLine(server_type, algos, level, clientinfo) ==
    << <<Item("BANANA")>>, <<Item(server_type)>>, <<Item("9")>>, algos,
       <<Item("LIT")>>, <<Item("SHA512")>>,
       <<KeyValue("sql", level), KeyValue("mal", 3)>>,
       <<KeyValue("BINARY", 1)>>, <<KeyValue("OOBINTR", 1)>> >>
    \o (IF clientinfo THEN << <<Item("CLIENTINFO")>> >> ELSE <<>>)

ChallengeLines ==
    { ChallengeLine(st, algos, level, ci) :
        st \in {"mserver", "merovingian"},
        algos \in { <<Item("SHA1"), Item("SHA256"), Item("SHA512")>>, <<Item("SHA1")>> },
        level \in {0, 3, 6},
        ci \in BOOLEAN }
    \cup { << <<Item("BANANA")>>, <<Item("mserver")>>, <<Item("8")>>,
              <<Item("SHA512")>>, <<Item("LIT")>>, <<Item("SHA512")>> >> }

\* ----------------------------------------------------- establish_connection
\* The number of turns of the 'redirect loop (connecting.rs).
RedirectLimit == 10
\* Most restarts of the handshake in one establish_connection.
MaxRestarts == 2

\* The Parameters the application connects with: the password in plain, the
\* prehashed password behind the marker, a wrong password, or a password set
\* without a user name; default settings or settings of its own.
PasswordHashed == <<Marker>> \o hex_digest("SHA512", Plain)
InitialParms ==
    { [host |-> "a", tls |-> FALSE, database |-> "demo", language |-> "sql",
       user |-> ServerUser, password |-> pw.password,
       user_changed |-> pw.user_changed, password_changed |-> TRUE,
       autocommit |-> cfg.autocommit, replysize |-> cfg.replysize,
       timezone |-> cfg.timezone, client_info |-> cfg.client_info] :
      pw \in { [password |-> Plain, user_changed |-> TRUE],
               [password |-> PasswordHashed, user_changed |-> TRUE],
               [password |-> <<Byte("wrong")>>, user_changed |-> TRUE],
               [password |-> Plain, user_changed |-> FALSE] },
      cfg \in { [autocommit |-> TRUE, replysize |-> 200, timezone |-> 0,
                 client_info |-> TRUE],
                [autocommit |-> FALSE, replysize |-> 100, timezone |-> 60,
                 client_info |-> FALSE] } }

InitLogin ==
    /\ InitConn({0})
    /\ InitCursors({})
    /\ app = [stmts |-> {}, totals |-> {}, execs |-> 0]
    /\ CodecOff
    /\ ParseOff
    /\ parms \in InitialParms
    /\ where = "connect" /\ hops = 0 /\ nsock = 0 /\ cur = <<>>
    /\ restarts = 0 /\ chal = <<>> /\ answer = <<>> /\ outcome = Outcome("", <<>>)
    /\ established = <<>>

\* establish_connection returns: Err(kind), or with kind "Ok" the socket, the
\* ServerState and the DelayedCommands; `written` is what it wrote to the
\* socket after the login was accepted.
Return(kind, ch, cr, written, reply) ==
    /\ where' = "done"
    /\ outcome' = Outcome(kind, reply)
    /\ chal' = ch
    /\ answer' = cr
    /\ established' = [kind |-> kind, sock |-> IF kind = "Ok" THEN cur.id ELSE 0,
                       written |-> written]
    /\ UNCHANGED <<parms, nsock, restarts>>

\* The head of the 'redirect loop: validate and connect_socket.
Connected(v, s) ==
    IF v.err # "" THEN Return(v.err, <<>>, <<>>, <<>>, <<>>) /\ UNCHANGED cur
    ELSE IF s.err # "" THEN Return(s.err, <<>>, <<>>, <<>>, <<>>) /\ UNCHANGED cur
    ELSE /\ nsock' = nsock + 1
         /\ cur' = [id |-> nsock + 1, to |-> s.to, rounds |-> 0]
         /\ where' = "login"
         /\ UNCHANGED <<parms, restarts, chal, answer, outcome, established>>

\* One turn of the 'redirect loop begins.
Connect(up) ==
    /\ where = "connect"
    /\ hops < RedirectLimit
    /\ hops' = hops + 1
    /\ Connected(validate(parms), connect_socket(validate(parms), up))
    /\ UNCHANGED <<connVars, serverVars, cursorVars, codecVars, parseVars>>

\* A 'redirect loop that never ends.
Redirected_unbounded(applied, reply) ==
    IF applied.err # "" THEN Return(applied.err, <<>>, <<>>, <<>>, reply)
    ELSE /\ where' = "connect"
         /\ outcome' = Outcome("Redirect", reply)
         /\ parms' = applied.parms
         /\ UNCHANGED <<nsock, restarts, chal, answer, established>>

\* Login::Redirect(url): apply_url and the next turn of the loop, or the end
\* of the loop.
Redirected(applied, reply) ==
    IF applied.err # "" THEN Return(applied.err, <<>>, <<>>, <<>>, reply)
    ELSE IF hops = RedirectLimit
    THEN /\ where' = "done"
         /\ outcome' = Outcome("TooManyRedirects", reply)
         /\ established' = [kind |-> "TooManyRedirects", sock |-> 0, written |-> <<>>]
         /\ parms' = applied.parms
         /\ UNCHANGED <<nsock, restarts, chal, answer>>
    ELSE /\ where' = "connect"
         /\ outcome' = Outcome("Redirect", reply)
         /\ parms' = applied.parms
         /\ UNCHANGED <<nsock, restarts, chal, answer, established>>

\* A Login::Complete that keeps the delayed commands for the first request.
Completed_unsent(ch, cr, reply) ==
    Return("Ok", ch, cr, <<>>, reply)

\* Login::Complete(sock, state): delayed.send_delayed(sock), whose
\* MapiBuf::reset leaves the buffer empty and the responses expected.
Completed(ch, cr, reply) ==
    Return("Ok", ch, [cr EXCEPT !.delayed.buffer = EmptyBuf],
           queue_reset(cr.delayed.buffer), reply)

\* The match on what login() returned, in establish_connection.
Matched(ch, cr, reply, login) ==
    IF login.err # "" THEN Return(login.err, ch, cr, <<>>, reply)
    ELSE IF login.login = "Complete" THEN Completed(ch, cr, reply)
    ELSE IF login.login = "Redirect"
    THEN Redirected(apply_url(parms, login.url), reply)
    ELSE /\ where' = "login"
         /\ outcome' = Outcome("Restart", reply)
         /\ restarts' = restarts + 1
         /\ UNCHANGED <<parms, nsock, chal, answer, established>>

\* login() after the server's answer to the response was read.
Answered(ch, cr, reply) == Matched(ch, cr, reply, process_redirects(reply))

\* login() after challenge_response returned `cr`: the response is sent, the
\* server's answer read and handed to process_redirects.
Responded(b, ch, cr) ==
    IF cr.err # "" THEN Return(cr.err, ch, <<>>, <<>>, <<>>)
    ELSE Answered(ch, cr, ServerReply(b, cr.response, ch))

\* login() after Challenge::new returned `ch`.
Challenged(b, v, ch) ==
    IF ch.err # "" THEN Return(ch.err, <<>>, <<>>, <<>>, <<>>)
    ELSE Responded(b, ch, challenge_response(v, ch))

\* One turn of the 'restart loop: login() on the socket in use, where the
\* server sends the challenge `line` and behaves as `b`.
Login(b, line) ==
    /\ where = "login"
    /\ (b.kind = "^" /\ b.url = ProxyUrl) => restarts < MaxRestarts
    /\ cur' = [cur EXCEPT !.rounds = @ + 1]
    /\ UNCHANGED hops
    /\ Challenged(b, validate(parms), Challenge_new(line))
    /\ UNCHANGED <<connVars, serverVars, cursorVars, codecVars, parseVars>>

NextLogin ==
    \/ \E up \in SUBSET {"unix", "tcp"} : Connect(up)
    \/ \E b \in Behaviours : \E line \in ChallengeLines : Login(b, line)

SpecLogin == InitLogin /\ [][NextLogin]_vars

\* The proxy that answers every response with its request to restart.
Proxy == Behaviour("^", ProxyUrl)

\* One more turn of the 'restart loop after MaxRestarts of them, against the
\* proxy.  The code keeps no count and goes round as before; the model
\* counts the turns on from 0.
LoginOnceMore(line) ==
    /\ where = "login"
    /\ restarts = MaxRestarts
    /\ UNCHANGED hops
    /\ IF Challenge_new(line).err = ""
          /\ challenge_response(validate(parms), Challenge_new(line)).err = ""
       THEN /\ process_redirects(
                  ServerReply(Proxy,
                              challenge_response(validate(parms),
                                                 Challenge_new(line)).response,
                              Challenge_new(line))).login = "Restart"
            /\ where' = "login"
            /\ outcome' = Outcome("Restart",
                                  ServerReply(Proxy,
                                              challenge_response(validate(parms),
                                                                 Challenge_new(line)).response,
                                              Challenge_new(line)))
            /\ restarts' = 0
            /\ cur' = [cur EXCEPT !.rounds = 1]
            /\ UNCHANGED <<parms, nsock, chal, answer, established>>
       ELSE /\ cur' = [cur EXCEPT !.rounds = @ + 1]
            /\ Challenged(Proxy, validate(parms), Challenge_new(line))
    /\ UNCHANGED <<connVars, serverVars, cursorVars, codecVars, parseVars>>

\* establish_connection against the servers that redirect to no other
\* server, the proxy that restarts for ever among them; the thread that runs
\* it is never held up for ever.
NextLoginFair ==
    \/ \E up \in SUBSET {"unix", "tcp"} : Connect(up)
    \/ \E b \in {x \in Behaviours : x.kind = "^" => x = Proxy} :
          \E line \in ChallengeLines : Login(b, line)
    \/ \E line \in ChallengeLines : LoginOnceMore(line)

\* The application connects with its password in plain and the default
\* settings.
InitLoginFair ==
    /\ InitLogin
    /\ parms.password = Plain /\ parms.user_changed /\ parms.autocommit

SpecLoginFair ==
    InitLoginFair /\ [][NextLoginFair]_vars /\ WF_vars(NextLoginFair)

\* --------------------------------------- the answer to the response, as text
\* Most characters of an answer handed to process_redirects.
MaxReply == 4

\* The characters the answers are made of; the longer ones stand for the
\* two halves of "mapi:merovingian://proxy" and for "OK".
ReplyChars == {" ", "\n", "=", "OK", "^", "!", "#", "mapi:merovingian:", "//proxy", "x"}
ReplyTexts == UNION {[1..n -> ReplyChars] : n \in 0..MaxReply}

\* u8::is_ascii_whitespace
is_ascii_whitespace(ch) == ch \in {" ", "\n"}

RECURSIVE trim_ascii_start(_)
\* str::trim_ascii_start
trim_ascii_start(s) ==
    IF s # <<>> /\ is_ascii_whitespace(Head(s)) THEN trim_ascii_start(Tail(s)) ELSE s

RECURSIVE trim_ascii_end(_)
\* str::trim_ascii_end
trim_ascii_end(s) ==
    IF s # <<>> /\ is_ascii_whitespace(s[Len(s)])
    THEN trim_ascii_end(SubSeq(s, 1, Len(s) - 1)) ELSE s

\* str::trim_ascii
trim_ascii(s) == trim_ascii_end(trim_ascii_start(s))

RECURSIVE first_line(_)
\* reply.split('\n').next().unwrap()
first_line(s) ==
    IF s = <<>> \/ Head(s) = "\n" THEN <<>> ELSE <<Head(s)>> \o first_line(Tail(s))

\* What process_redirects returns: Ok(Login::...) or Err(ConnectError::...),
\* with the URL or the message.
Classified(kind, text) == [kind |-> kind, text |-> text]

\* A classification that takes everything after the '^' for the URL.
classify_whole(reply) ==
    IF reply = <<>> \/ starts_with(reply, <<"=", "OK">>) THEN Classified("Complete", <<>>)
    ELSE IF starts_with(reply, <<"^">>)
    THEN (IF starts_with(Tail(reply), <<"mapi:merovingian:", "//proxy">>)
          THEN Classified("Restart", <<>>)
          ELSE Classified("Redirect", Tail(reply)))
    ELSE IF starts_with(reply, <<"!">>) THEN Classified("Rejected", Tail(reply))
    ELSE IF starts_with(reply, <<"#">>) THEN Classified("Complete", <<>>)
    ELSE Classified("UnexpectedResponse", reply)

\* process_redirects after `let reply = reply.trim_ascii()`.
classify(reply) ==
    IF reply = <<>> \/ starts_with(reply, <<"=", "OK">>) THEN Classified("Complete", <<>>)
    ELSE IF starts_with(reply, <<"^">>)
    THEN (IF starts_with(Tail(first_line(reply)), <<"mapi:merovingian:", "//proxy">>)
          THEN Classified("Restart", <<>>)
          ELSE Classified("Redirect", Tail(first_line(reply))))
    ELSE IF starts_with(reply, <<"!">>) THEN Classified("Rejected", Tail(reply))
    ELSE IF starts_with(reply, <<"#">>) THEN Classified("Complete", <<>>)
    ELSE Classified("UnexpectedResponse", reply)

\* The server's answer is any text of up to MaxReply characters.
InitRedirects ==
    /\ InitConn({0})
    /\ InitCursors({})
    /\ app = [stmts |-> {}, totals |-> {}, execs |-> 0]
    /\ CodecOff
    /\ ParseOff
    /\ parms = <<>> /\ hops = 0 /\ nsock = 0 /\ cur = <<>> /\ restarts = 0
    /\ chal = <<>> /\ established = <<>>
    /\ where = "answered"
    /\ answer \in ReplyTexts
    /\ outcome = Outcome("", <<>>)

\* process_redirects on the text of the answer.
ProcessRedirects ==
    /\ where = "answered"
    /\ where' = "classified"
    /\ outcome' = classify(trim_ascii(answer))
    /\ UNCHANGED <<parms, hops, nsock, cur, restarts, chal, answer, established>>
    /\ UNCHANGED <<connVars, serverVars, cursorVars, codecVars, parseVars>>

SpecRedirects == InitRedirects /\ [][ProcessRedirects]_vars

\* ===================================================== the parser alone
\* Most sections in a reply handed to the parser.
MaxSections == 3
\* Rows of the result sets in such a reply, all sent with the reply.
ParserRows == 2

\* The kinds of section a reply is made of: &1, &2, &3, &4 and '!'.
SectionKinds == {"data", "upd", "ok", "tx", "err"}

\* The replies handed to the parser: every sequence of sections.
SectionSeqs ==
    UNION {[1..n -> SectionKinds] : n \in 1..MaxSections}

\* The kind of section the parser is at, "" when Exhausted.
KindOf(r) ==
    IF r.kind = "Data" THEN "data"
    ELSE IF r.kind = "Error" THEN "err"
    ELSE IF r.kind = "Tx" THEN "tx"
    ELSE IF r.kind = "Success" THEN (IF r.affected = None THEN "ok" ELSE "upd")
    ELSE ""

\* ReplyParser::new on the reply made of the sections `script`.
ReplyParser_new(script) ==
    parse(StatementReply(script, 1, 1, ParserRows, ParserRows))

InitParser ==
    /\ InitConn({0})
    /\ InitCursors({})
    /\ app = [stmts |-> {}, totals |-> {}, execs |-> 0]
    /\ CodecOff
    /\ LoginOff
    /\ sections \in SectionSeqs
    /\ parser = ReplyParser_new(sections).parser
    /\ seen = <<KindOf(parser)>>
    /\ more = "true"
    /\ wire = <<>> /\ win = <<>> /\ adv = "" /\ nadv = 0 /\ got = <<>>
    /\ conv = <<>>

\* The parser is at a result set and RowSet::advance consumes a row of it.
ConsumeRow ==
    /\ parser.kind = "Data"
    /\ advance(parser.rs.row_set).more
    /\ parser' = [parser EXCEPT !.rs.row_set = advance(parser.rs.row_set).row_set,
                                !.rs.next_row = @ + 1]
    /\ UNCHANGED <<sections, seen, more, wire, win, adv, nadv, got, conv>>
    /\ UNCHANGED <<connVars, serverVars, cursorVars, codecVars, loginVars>>

\* The parser after into_next_reply returned `res`; switch_to_reply tells
\* whether it is at a reply.
Moved(res) ==
    /\ parser' = res.parser
    /\ more' = IF res.err # "" THEN res.err
               ELSE IF res.parser.kind = "Exhausted" THEN "false" ELSE "true"
    /\ seen' = IF res.err = "" /\ res.parser.kind # "Exhausted"
               THEN Append(seen, KindOf(res.parser)) ELSE seen

\* ReplyParser::into_next_reply, as next_reply calls it.
IntoNextReply ==
    /\ Moved(into_next_reply(parser))
    /\ UNCHANGED <<sections, wire, win, adv, nadv, got, conv>>
    /\ UNCHANGED <<connVars, serverVars, cursorVars, codecVars, loginVars>>

NextParser == ConsumeRow \/ IntoNextReply

SpecParser == InitParser /\ [][NextParser]_vars

\* ==================================================== the row set alone
\* rowset.rs and the ReplyBuf of replies.rs, byte by byte.  A byte is a
\* one-character string; ByteFF stands for the byte 0xFF.
ByteFF == "0xFF"
TAB == "\t"
LF == "\n"
QUOTE == "\""
BACKSLASH == "\\"
NULL == <<"N", "U", "L", "L">>

\* Option<(*const u8, usize)>: None, or the bytes pointed at.
Slot(null, bytes) == [null |-> null, bytes |-> bytes]
NullSlot == Slot(TRUE, <<>>)

\* ReplyBuf::find2: the offset of the first byte1 or byte2, or None.
find2(buf, byte1, byte2) ==
    FirstIndex(1, Len(buf), LAMBDA i : buf[i] \in {byte1, byte2}) - 1

\* ReplyBuf::split(sep) on bytes: the bytes before the first sep, and the rest.
split_sep(buf, sep) ==
    IF \A i \in 1..Len(buf) : buf[i] # sep
    THEN [err |-> IF buf = <<>> THEN "UnexpectedEnd" ELSE "SepNotFound",
          line |-> <<>>, buf |-> buf]
    ELSE [err |-> "",
          line |-> SubSeq(buf, 1, find2(buf, sep, sep)),
          buf |-> Drop(buf, find2(buf, sep, sep) + 1)]

\* A digit test that takes 8 and 9 for octal digits.
Digit_wrapping(chr) ==
    CASE chr = "0" -> 0 [] chr = "1" -> 1 [] chr = "2" -> 2 [] chr = "3" -> 3
      [] chr = "4" -> 4 [] chr = "5" -> 5 [] chr = "6" -> 6 [] chr = "7" -> 7
      [] chr = "8" -> 0 [] chr = "9" -> 1 [] OTHER -> 255

\* chr.wrapping_sub(b'0'): the digit, or a value with high bits set.
Digit(chr) ==
    CASE chr = "0" -> 0 [] chr = "1" -> 1 [] chr = "2" -> 2 [] chr = "3" -> 3
      [] chr = "4" -> 4 [] chr = "5" -> 5 [] chr = "6" -> 6 [] chr = "7" -> 7
      [] chr = "8" -> 8 [] chr = "9" -> 9 [] OTHER -> 255

\* The printable bytes 32 .. 126, in order; the two quote marks a string of
\* the model cannot hold are written as their values.
Printable ==
    <<" ", "!", QUOTE, "#", "$", "%", "&", "#39", "(", ")", "*", "+", ",", "-",
      ".", "/", "0", "1", "2", "3", "4", "5", "6", "7", "8", "9", ":", ";",
      "<", "=", ">", "?", "@", "A", "B", "C", "D", "E", "F", "G", "H", "I",
      "J", "K", "L", "M", "N", "O", "P", "Q", "R", "S", "T", "U", "V", "W",
      "X", "Y", "Z", "[", BACKSLASH, "]", "^", "_", "#96", "a", "b", "c", "d",
      "e", "f", "g", "h", "i", "j", "k", "l", "m", "n", "o", "p", "q", "r",
      "s", "t", "u", "v", "w", "x", "y", "z", "{", "|", "}", "~">>

\* The byte with the given value; a byte that is not printable is written
\* "#" and its value, 0xFF apart.
Chr(n) ==
    CASE n = 9 -> TAB [] n = 10 -> LF [] n = 255 -> ByteFF
      [] n \in 32..126 -> Printable[n - 31]
      [] OTHER -> "#" \o ToString(n)

\* The value of a byte.
Ord(b) == CHOOSE n \in 0..255 : Chr(n) = b

\* The escapes of one character convert_backslashes knows.
Escapes == {"t", "n", "f", "r", BACKSLASH, QUOTE}
Unescaped(chr) ==
    CASE chr = "t" -> TAB [] chr = "n" -> LF [] chr = "f" -> Chr(12)
      [] chr = "r" -> Chr(13) [] OTHER -> chr

Converted(err, bytes, buf) == [err |-> err, bytes |-> bytes, buf |-> buf]

RECURSIVE unescape(_, _, _)
\* The loop of ReplyBuf::convert_backslashes: `at` bytes of buf have been
\* read, `wr` is what was written over them.
unescape(buf, at, wr) ==
    IF at = Len(buf) THEN Converted("UnexpectedEnd", <<>>, buf)
    ELSE IF buf[at + 1] = BACKSLASH
    THEN (IF Len(buf) - (at + 1) < 1 THEN Converted("InvalidBackslashEscape", <<>>, buf)
          ELSE IF buf[at + 2] \in Escapes
          THEN unescape(buf, at + 2, Append(wr, Unescaped(buf[at + 2])))
          ELSE IF buf[at + 2] \in {"0", "1", "2", "3"}
          THEN (IF Len(buf) - (at + 1) < 3 THEN Converted("UnexpectedEnd", <<>>, buf)
                ELSE IF Digit(buf[at + 3]) > 7 \/ Digit(buf[at + 4]) > 7
                THEN Converted("InvalidBackslashEscape", <<>>, buf)
                ELSE unescape(buf, at + 4,
                              Append(wr, Chr(64 * Digit(buf[at + 2])
                                              + 8 * Digit(buf[at + 3])
                                              + Digit(buf[at + 4])))))
          ELSE Converted("InvalidBackslashEscape", <<>>, buf))
    ELSE IF buf[at + 1] = QUOTE THEN Converted("", wr, Drop(buf, at + 1))
    ELSE unescape(buf, at + 1, Append(wr, buf[at + 1]))

\* A conversion that returns only the bytes after the skipped ones.
convert_backslashes_tail(buf, skip) == unescape(buf, skip, <<>>)

\* ReplyBuf::convert_backslashes(skip): the bytes from the position up to
\* the closing quote, unescaped in place; the position moves past the quote.
convert_backslashes(buf, skip) == unescape(buf, skip, SubSeq(buf, 1, skip))

\* What do_advance makes of one field: the slot and the bytes left.
Field(err, slot, buf) == [err |-> err, slot |-> slot, buf |-> buf]

\* A field that had backslashes, after convert_backslashes returned `u`.
escaped_field(comma_skip, u) ==
    IF u.err # "" THEN Field(u.err, NullSlot, u.buf)
    ELSE IF comma_skip + 1 > Len(u.buf) THEN Field("panic", NullSlot, u.buf)
    ELSE Field("", Slot(FALSE, u.bytes), Drop(u.buf, comma_skip + 1))

\* A quoted field that yields None when its content is NULL.
quoted_field_nulling(buf, comma_skip, pos) ==
    IF pos = None THEN Field("UnexpectedEnd", NullSlot, buf)
    ELSE IF pos + 1 + comma_skip + 1 > Len(buf) THEN Field("panic", NullSlot, buf)
    ELSE Field("", IF SubSeq(buf, 1, pos) = NULL THEN NullSlot
                   ELSE Slot(FALSE, SubSeq(buf, 1, pos)),
               Drop(buf, pos + 1 + comma_skip + 1))

\* do_advance on a field that starts with a quote; `buf` starts after the
\* quote and `pos` is what find2(b'"', b'\\') returned.
quoted_field(buf, comma_skip, pos) ==
    IF pos = None THEN Field("UnexpectedEnd", NullSlot, buf)
    ELSE IF buf[pos + 1] = QUOTE
    THEN (IF pos + 1 + comma_skip + 1 > Len(buf) THEN Field("panic", NullSlot, buf)
          ELSE Field("", Slot(FALSE, SubSeq(buf, 1, pos)),
                     Drop(buf, pos + 1 + comma_skip + 1)))
    ELSE escaped_field(comma_skip, convert_backslashes(buf, pos))

\* do_advance on a field without quote; `s` is what split(b'\t') returned.
unquoted_field(comma_skip, s) ==
    IF s.err # "" THEN Field(s.err, NullSlot, s.buf)
    ELSE IF Len(s.line) < comma_skip THEN Field("panic", NullSlot, s.buf)
    ELSE Field("",
               IF SubSeq(s.line, 1, Len(s.line) - comma_skip) = NULL THEN NullSlot
               ELSE Slot(FALSE, SubSeq(s.line, 1, Len(s.line) - comma_skip)),
               s.buf)

\* The match on the first byte of a field.
one_field(buf, comma_skip) ==
    IF buf = <<>> THEN Field("UnexpectedEnd", NullSlot, buf)
    ELSE IF buf[1] = "]" THEN Field("TooFewColumns", NullSlot, buf)
    ELSE IF buf[1] = QUOTE
    THEN quoted_field(Drop(buf, 1), comma_skip, find2(Drop(buf, 1), QUOTE, BACKSLASH))
    ELSE unquoted_field(comma_skip, split_sep(buf, TAB))

Fields(err, fields, buf) == [err |-> err, fields |-> fields, buf |-> buf]

RECURSIVE fields_loop(_, _, _, _)
\* One turn of the loop over self.fields, in which field i came out as `f`.
field_turn(fields, i, ncols, f) ==
    IF f.err # "" THEN Fields(f.err, fields, f.buf)
    ELSE fields_loop([fields EXCEPT ![i + 1] = f.slot], f.buf, i + 1, ncols)

\* The loop of do_advance over self.fields, from field i on.
fields_loop(fields, buf, i, ncols) ==
    IF i >= Len(fields) THEN Fields("", fields, buf)
    ELSE field_turn(fields, i, ncols,
                    one_field(buf, IF i + 1 < ncols THEN 1 ELSE 0))

\* RowSet::new
RowSet_new(buf, ncols) ==
    [buf |-> buf, ncols |-> ncols, fields |-> [i \in 1..ncols |-> NullSlot]]

Advanced(err, have_row, rs) == [err |-> err, more |-> have_row, rs |-> rs]

\* do_advance after the loop over the fields returned `f`.
after_fields(rs, f) ==
    IF f.err # ""
    THEN Advanced(f.err, FALSE, [rs EXCEPT !.buf = f.buf, !.fields = f.fields])
    ELSE IF ~starts_with(f.buf, <<"]", LF>>)
    THEN Advanced("SepNotFound", FALSE, [rs EXCEPT !.buf = f.buf, !.fields = f.fields])
    ELSE Advanced("", TRUE, [rs EXCEPT !.buf = Drop(f.buf, 2), !.fields = f.fields])

\* A do_advance that leaves the slots as they are at the end of the rows.
do_advance_stale(rs) ==
    IF rs.buf = <<>> \/ rs.buf[1] # "[" THEN Advanced("", FALSE, rs)
    ELSE IF Len(rs.buf) < 2 THEN Advanced("panic", FALSE, rs)
    ELSE after_fields(rs, fields_loop(rs.fields, Drop(rs.buf, 2), 0, rs.ncols))

\* RowSet::do_advance
do_advance(rs) ==
    IF rs.buf = <<>> \/ rs.buf[1] # "["
    THEN Advanced("", FALSE, [rs EXCEPT !.fields = [i \in 1..Len(@) |-> NullSlot]])
    ELSE IF Len(rs.buf) < 2 THEN Advanced("panic", FALSE, rs)
    ELSE after_fields(rs, fields_loop(rs.fields, Drop(rs.buf, 2), 0, rs.ncols))

\* RowSet::advance after do_advance returned `a`: an error clears the slots.
cleared(a) ==
    IF a.err # "" /\ a.err # "panic" THEN [a EXCEPT !.rs.fields = <<>>] ELSE a

\* RowSet::advance
RowSet_advance(rs) == cleared(do_advance(rs))

\* RowSet::get_field_raw
get_field_raw(rs, idx) ==
    IF idx >= Len(rs.fields) THEN NullSlot ELSE rs.fields[idx + 1]

\* What a getter returns: Ok(None), Ok(Some(val)) or Err(kind).
Got(kind, some, val) == [kind |-> kind, some |-> some, val |-> val]
OkNone == Got("Ok", FALSE, <<>>)

\* replies.rs from_utf8: no string holds the byte 0xFF.
from_utf8(bytes) ==
    IF \E i \in 1..Len(bytes) : bytes[i] = ByteFF
    THEN Got("BadReply", FALSE, <<>>) ELSE Got("Ok", TRUE, bytes)

\* get_str after get_field_raw returned `raw`.
str_of(raw) == IF raw.null THEN OkNone ELSE from_utf8(raw.bytes)

\* RowSet::get_str
get_str(rs, idx) == str_of(get_field_raw(rs, idx))

RECURSIVE Decimal(_, _)
\* The number the decimal digits stand for after `acc`, None if one is no digit.
Decimal(digits, acc) ==
    IF digits = <<>> THEN acc
    ELSE IF Digit(Head(digits)) > 9 THEN None
    ELSE Decimal(Tail(digits), 10 * acc + Digit(Head(digits)))

\* <int as FromStr>::from_str for an integer type of range lo..hi.
parse_int(s, lo, hi) ==
    IF s = <<>> THEN Got("Conversion", FALSE, <<>>)
    ELSE IF s[1] \in {"+", "-"} /\ Len(s) = 1 THEN Got("Conversion", FALSE, <<>>)
    ELSE IF s[1] = "-" /\ lo = 0 /\ Decimal(Tail(s), 0) # 0
    THEN Got("Conversion", FALSE, <<>>)
    ELSE IF s[1] \in {"+", "-"} /\ Decimal(Tail(s), 0) = None
    THEN Got("Conversion", FALSE, <<>>)
    ELSE IF s[1] = "-" /\ -Decimal(Tail(s), 0) < lo THEN Got("Conversion", FALSE, <<>>)
    ELSE IF s[1] = "-" THEN Got("Ok", TRUE, -Decimal(Tail(s), 0))
    ELSE IF s[1] = "+" /\ Decimal(Tail(s), 0) > hi THEN Got("Conversion", FALSE, <<>>)
    ELSE IF s[1] = "+" THEN Got("Ok", TRUE, Decimal(Tail(s), 0))
    ELSE IF Decimal(s, 0) = None \/ Decimal(s, 0) > hi THEN Got("Conversion", FALSE, <<>>)
    ELSE Got("Ok", TRUE, Decimal(s, 0))

\* <bool as FromStr>::from_str
parse_bool(s) ==
    IF s = <<"t", "r", "u", "e">> THEN Got("Ok", TRUE, TRUE)
    ELSE IF s = <<"f", "a", "l", "s", "e">> THEN Got("Ok", TRUE, FALSE)
    ELSE Got("Conversion", FALSE, <<>>)

\* The types asked of the getters.
Types == {"str", "bool", "i8", "u8", "i16"}

\* s.parse() for the type `ty`.
parse_as(s, ty) ==
    CASE ty = "bool" -> parse_bool(s)
      [] ty = "i8" -> parse_int(s, -128, 127)
      [] ty = "u8" -> parse_int(s, 0, 255)
      [] ty = "i16" -> parse_int(s, -32768, 32767)
      [] OTHER -> Got("Ok", TRUE, s)

\* RowSet::transform_field after get_str returned `s`.
transform_field(s, ty) ==
    IF s.kind # "Ok" THEN s
    ELSE IF ~s.some THEN OkNone
    ELSE parse_as(s.val, ty)

\* RowSet::get_fromstr and the getters made of it; get_str for "str".
get_fromstr(rs, col, ty) == transform_field(get_str(rs, col), ty)

\* --------------------------------------------------- the rows on the wire
\* Most columns of a window, and most rows of a window of one column.
MaxFields == 2
MaxWindow == 2

\* A field as the server has it: its bytes, and whether it is written quoted.
Unquoted(bytes) == [quoted |-> FALSE, bytes |-> bytes]
Quoted(bytes) == [quoted |-> TRUE, bytes |-> bytes]

\* The fields the rows are made of.
FieldPool ==
    { Unquoted(<<"9">>), Unquoted(NULL), Unquoted(<<"-", "5">>),
      Unquoted(<<"t", "r", "u", "e">>),
      Quoted(<<>>), Quoted(NULL), Quoted(<<"a", TAB, QUOTE, BACKSLASH>>),
      Quoted(<<ByteFF>>) }

\* Three octal digits for a byte value: {b:03o}.
Octal(n) ==
    <<Chr(48 + (n \div 64)), Chr(48 + ((n \div 8) % 8)), Chr(48 + (n % 8))>>

\* The escape of test_rowset_escaped_strings for one byte.
EscapeByte(b) ==
    CASE b = TAB -> <<BACKSLASH, "t">>
      [] b = LF -> <<BACKSLASH, "n">>
      [] b = Chr(13) -> <<BACKSLASH, "r">>
      [] b = BACKSLASH -> <<BACKSLASH, BACKSLASH>>
      [] b = QUOTE -> <<BACKSLASH, QUOTE>>
      [] OTHER -> IF Ord(b) <= 31 \/ Ord(b) >= 127
                  THEN <<BACKSLASH>> \o Octal(Ord(b)) ELSE <<b>>

RECURSIVE Escape(_)
Escape(bytes) ==
    IF bytes = <<>> THEN <<>> ELSE EscapeByte(Head(bytes)) \o Escape(Tail(bytes))

\* A field on the wire.
Encode(f) == IF f.quoted THEN <<QUOTE>> \o Escape(f.bytes) \o <<QUOTE>> ELSE f.bytes

RECURSIVE WireFields(_, _)
\* Fields i .. of a row on the wire: a comma after all but the last, a tab
\* after each.
WireFields(row, i) ==
    IF i > Len(row) THEN <<>>
    ELSE Encode(row[i]) \o (IF i < Len(row) THEN <<",">> ELSE <<>>) \o <<TAB>>
         \o WireFields(row, i + 1)

\* A row on the wire.
WireRow(row) == <<"[", " ">> \o WireFields(row, 1) \o <<"]", LF>>

RECURSIVE WireRows(_, _)
WireRows(rows, i) ==
    IF i > Len(rows) THEN <<>> ELSE WireRow(rows[i]) \o WireRows(rows, i + 1)

\* The windows: one row of up to MaxFields columns, or up to MaxWindow rows
\* of one column.
Windows ==
    UNION {[1..1 -> [1..n -> FieldPool]] : n \in 1..MaxFields}
    \cup UNION {[1..r -> [1..1 -> FieldPool]] : r \in 2..MaxWindow}

NoGet == [col |-> 0, ty |-> "", res |-> OkNone]

InitRows ==
    /\ InitConn({0})
    /\ InitCursors({})
    /\ app = [stmts |-> {}, totals |-> {}, execs |-> 0]
    /\ CodecOff
    /\ LoginOff
    /\ sections = <<>> /\ parser = Exhausted /\ seen = <<>> /\ more = ""
    /\ wire \in Windows
    /\ win = RowSet_new(WireRows(wire, 1), Len(wire[1]))
    /\ adv = "" /\ nadv = 0 /\ got = NoGet /\ conv = <<>>

\* What advance() returned, as a word.
Word(a) == IF a.err # "" THEN a.err ELSE IF a.more THEN "true" ELSE "false"

\* RowSet::advance returned `a`.
AdvancedTo(a) ==
    /\ win' = a.rs
    /\ adv' = Word(a)
    /\ nadv' = nadv + (IF a.err = "" /\ a.more THEN 1 ELSE 0)
    /\ got' = NoGet

\* The application calls advance().
Advance ==
    /\ adv \in {"", "true", "false"}
    /\ AdvancedTo(RowSet_advance(win))
    /\ UNCHANGED <<sections, parser, seen, more, wire, conv>>
    /\ UNCHANGED <<connVars, serverVars, cursorVars, codecVars, loginVars>>

\* The application calls the getter of type `ty` for column `col`.
Get(col, ty) ==
    /\ adv \in {"", "true", "false"}
    /\ got' = [col |-> col, ty |-> ty, res |-> get_fromstr(win, col, ty)]
    /\ UNCHANGED <<sections, parser, seen, more, wire, win, adv, nadv, conv>>
    /\ UNCHANGED <<connVars, serverVars, cursorVars, codecVars, loginVars>>

NextRows ==
    \/ Advance
    \/ \E col \in 0..MaxFields : \E ty \in Types : Get(col, ty)

SpecRows == InitRows /\ [][NextRows]_vars

\* ------------------------------------------------- one quoted field alone
\* Most bytes of a string that is escaped.
MaxEscaped == 3

\* The bytes the strings are made of, one of each kind the escapes tell
\* apart, and the strings.
StringBytes == {TAB, Chr(13), Chr(12), BACKSLASH, QUOTE, Chr(1), ByteFF, "1", "t"}
Strings == UNION {[1..n -> StringBytes] : n \in 0..MaxEscaped}

\* The escape with \f for the form feed, which the test writes in octal.
EscapeByteF(b) == IF b = Chr(12) THEN <<BACKSLASH, "f">> ELSE EscapeByte(b)

RECURSIVE EscapeF(_)
EscapeF(bytes) ==
    IF bytes = <<>> THEN <<>> ELSE EscapeByteF(Head(bytes)) \o EscapeF(Tail(bytes))

\* The bytes after the opening quote of a field, in parts: bytes without
\* escape, one backslash and what follows it, and the rest.
FieldBody(kind, s, plain, esc, rest) ==
    [kind |-> kind, s |-> s, plain |-> plain, esc |-> esc, rest |-> rest]

\* The escaped strings with their closing quote.
StringBodies ==
    {FieldBody("string", s, <<>>, <<>>, e \o <<QUOTE>>) :
        <<s, e>> \in {<<s, Escape(s)>> : s \in Strings}
                     \cup {<<s, EscapeF(s)>> : s \in Strings}}

\* At most one escape of any kind, right or wrong, with or without closing
\* quote.
Followers ==
    {"t", "n", "r", "f", BACKSLASH, QUOTE, "0", "3", "4", "9", "x", "N", " ",
     TAB, ByteFF}
OctalDigits == {"0", "7", "8", "a", QUOTE}
EscapeBodies ==
    {FieldBody("escape", <<>>, plain, esc, rest) :
        plain \in {<<>>, <<"a">>},
        esc \in {<<>>, <<BACKSLASH>>} \cup {<<BACKSLASH, x>> : x \in Followers}
                 \cup {<<BACKSLASH, "0", d2>> : d2 \in OctalDigits}
                 \cup {<<BACKSLASH, d1, d2, d3>> :
                          d1 \in {"0", "1", "3"},
                          d2 \in OctalDigits, d3 \in OctalDigits},
        rest \in {<<>>, <<QUOTE>>, <<"7", QUOTE>>}}

\* The bytes that follow the field in a row of two columns with the field
\* in column `col`; none if the reply is cut off after the field.
Trailer(col, cut) ==
    IF cut THEN <<>>
    ELSE (IF col = 0 THEN <<",", TAB, "9">> ELSE <<>>) \o <<TAB, "]", LF>>

\* A row of two columns with the quoted field in column `col`.
FieldRow(body, col, cut) ==
    <<"[", " ">>
    \o (IF col = 1 THEN <<"9", ",", TAB>> ELSE <<>>)
    \o <<QUOTE>> \o body.plain \o body.esc \o body.rest
    \o Trailer(col, cut)

\* The rows: whole ones, and ones cut off in or right after the escape.
FieldRows ==
    {[body |-> b, col |-> col, cut |-> FALSE] :
        b \in StringBodies \cup EscapeBodies, col \in 0..1}
    \cup {[body |-> b, col |-> col, cut |-> TRUE] :
             b \in {e \in EscapeBodies : e.rest = <<>>}, col \in 0..1}

InitEscape ==
    /\ InitConn({0})
    /\ InitCursors({})
    /\ app = [stmts |-> {}, totals |-> {}, execs |-> 0]
    /\ CodecOff
    /\ LoginOff
    /\ sections = <<>> /\ parser = Exhausted /\ seen = <<>> /\ more = ""
    /\ wire \in FieldRows
    /\ win = RowSet_new(FieldRow(wire.body, wire.col, wire.cut), 2)
    /\ adv = "" /\ nadv = 0 /\ got = NoGet /\ conv = <<>>

NextEscape ==
    \/ Advance
    \/ \E col \in 0..1 : Get(col, "str")

SpecEscape == InitEscape /\ [][NextEscape]_vars

\* ------------------------------------- convert_backslashes, loop by loop
\* The ReplyBuf as convert_backslashes holds it: the bytes, the position, the
\* offsets of the two pointers, what it returned ("" inside the loop) and the
\* bounds of the slice it returned.
Converting(data, pos, start) ==
    [data |-> data, pos |-> pos, rd |-> start, wr |-> start, ret |-> "",
     slice |-> <<0, 0>>]

\* rd.read(): the byte at offset rd.
rd_read(b) == b.data[b.rd + 1]

\* A return with an error after rd moved by `n`.
loop_err(b, n, err) == [b EXCEPT !.rd = b.rd + n, !.ret = err]

\* wr.write(unescaped) after rd moved by `n`.
wr_write(b, n, unescaped) ==
    [b EXCEPT !.data[b.wr + 1] = unescaped, !.wr = b.wr + 1, !.rd = b.rd + n]

\* The end of the function: the position moves to rd and the bytes from the
\* old position to wr are returned.
loop_break(b) ==
    [b EXCEPT !.rd = b.rd + 1, !.pos = b.rd + 1, !.ret = "Ok",
              !.slice = <<b.pos, b.wr>>]

\* A turn that writes the closing quote like any other byte before it leaves.
loop_turn_closing(b) ==
    IF b.rd = Len(b.data) THEN loop_err(b, 0, "UnexpectedEnd")
    ELSE IF rd_read(b) = BACKSLASH
    THEN (IF Len(b.data) - (b.rd + 1) < 1
          THEN loop_err(b, 1, "InvalidBackslashEscape")
          ELSE IF b.data[b.rd + 2] \in Escapes
          THEN wr_write(b, 2, Unescaped(b.data[b.rd + 2]))
          ELSE IF b.data[b.rd + 2] \in {"0", "1", "2", "3"}
          THEN (IF Len(b.data) - (b.rd + 1) < 3
                THEN loop_err(b, 2, "UnexpectedEnd")
                ELSE IF Digit(b.data[b.rd + 3]) > 7 \/ Digit(b.data[b.rd + 4]) > 7
                THEN loop_err(b, 4, "InvalidBackslashEscape")
                ELSE wr_write(b, 4, Chr(64 * Digit(b.data[b.rd + 2])
                                         + 8 * Digit(b.data[b.rd + 3])
                                         + Digit(b.data[b.rd + 4]))))
          ELSE loop_err(b, 2, "InvalidBackslashEscape"))
    ELSE IF rd_read(b) = QUOTE THEN loop_break(wr_write(b, 0, QUOTE))
    ELSE wr_write(b, 1, rd_read(b))

\* One turn of the loop of convert_backslashes.
loop_turn(b) ==
    IF b.rd = Len(b.data) THEN loop_err(b, 0, "UnexpectedEnd")
    ELSE IF rd_read(b) = BACKSLASH
    THEN (IF Len(b.data) - (b.rd + 1) < 1
          THEN loop_err(b, 1, "InvalidBackslashEscape")
          ELSE IF b.data[b.rd + 2] \in Escapes
          THEN wr_write(b, 2, Unescaped(b.data[b.rd + 2]))
          ELSE IF b.data[b.rd + 2] \in {"0", "1", "2", "3"}
          THEN (IF Len(b.data) - (b.rd + 1) < 3
                THEN loop_err(b, 2, "UnexpectedEnd")
                ELSE IF Digit(b.data[b.rd + 3]) > 7 \/ Digit(b.data[b.rd + 4]) > 7
                THEN loop_err(b, 4, "InvalidBackslashEscape")
                ELSE wr_write(b, 4, Chr(64 * Digit(b.data[b.rd + 2])
                                         + 8 * Digit(b.data[b.rd + 3])
                                         + Digit(b.data[b.rd + 4]))))
          ELSE loop_err(b, 2, "InvalidBackslashEscape"))
    ELSE IF rd_read(b) = QUOTE THEN loop_break(b)
    ELSE wr_write(b, 1, rd_read(b))

\* The offset of the byte after the opening quote of the field of a row.
FieldStart(col) == 3 + (IF col = 1 THEN 3 ELSE 0)

\* The skips: none, and the bytes before the first quote or backslash, which
\* is what do_advance passes.
Skips(buf) ==
    {0, IF find2(buf, QUOTE, BACKSLASH) = None THEN Len(buf)
        ELSE find2(buf, QUOTE, BACKSLASH)}

\* convert_backslashes is called on a row at the start of its quoted field;
\* `wire` keeps the call.
InitInPlace ==
    /\ InitConn({0})
    /\ InitCursors({})
    /\ app = [stmts |-> {}, totals |-> {}, execs |-> 0]
    /\ CodecOff
    /\ LoginOff
    /\ sections = <<>> /\ parser = Exhausted /\ seen = <<>> /\ more = ""
    /\ \E row \in FieldRows :
          \E skip \in Skips(Drop(FieldRow(row.body, row.col, row.cut),
                                 FieldStart(row.col))) :
             wire = [data |-> FieldRow(row.body, row.col, row.cut),
                     pos |-> FieldStart(row.col), skip |-> skip]
    /\ win = <<>> /\ adv = "" /\ nadv = 0 /\ got = <<>>
    /\ conv = Converting(wire.data, wire.pos, wire.pos + wire.skip)

\* The loop takes a turn.
LoopTurn ==
    /\ conv.ret = ""
    /\ conv' = loop_turn(conv)
    /\ UNCHANGED <<sections, parser, seen, more, wire, win, adv, nadv, got>>
    /\ UNCHANGED <<connVars, serverVars, cursorVars, codecVars, loginVars>>

SpecInPlace == InitInPlace /\ [][LoopTurn]_vars

\* ================================================================ claims
Ceil(a, b) == IF a = 0 THEN 0 ELSE (a + b - 1) \div b

\* The cursor's method has returned and its thread is idle.
Returned(c, name, kind) ==
    pc[c] = "idle" /\ ret[c].name = name /\ ret[c].kind = kind

\* Rows of result set `id` the server sent with the statement's reply.
InitialRows(id, total) == IF results[id].open THEN results[id].k ELSE total

\* C1: on a result set of T rows of which the first reply carried k, next_row
\* returns true at most T times, each time handing out the next row in order;
\* it returns false only after T trues, and by then exactly
\* ceil((T - k) / replysize) Xexports have been sent; every Xexport starts at
\* the number of rows returned so far and asks for min(replysize, T - start).
C1_RowsAndFetches ==
    \A c \in Cursors :
        replies[c].kind = "Data" =>
            LET rs == replies[c].rs
                total == rs.total_rows
                k == InitialRows(rs.result_id, total)
            IN /\ trues[c] <= total
               /\ trues[c] = rs.next_row
               /\ (Returned(c, "next_row", "Ok") /\ ret[c].val)
                     => rs.row_set.fields = N(trues[c] - 1)
               /\ (Returned(c, "next_row", "Ok") /\ ~ret[c].val)
                     => /\ trues[c] = total
                        /\ Len(fetched[c]) = Ceil(total - k, reply_size)
               /\ \A j \in 1..Len(fetched[c]) :
                     /\ fetched[c][j][1] = fetched[c][j][3]
                     /\ fetched[c][j][1] = k + (j - 1) * reply_size
                     /\ fetched[c][j][2] = Min(reply_size, total - fetched[c][j][1])

\* A result set of MaxRows rows was read to its end with two Xexports.
C1_Witness ==
    \E c \in Cursors :
        /\ replies[c].kind = "Data"
        /\ replies[c].rs.total_rows = MaxRows
        /\ Returned(c, "next_row", "Ok") /\ ~ret[c].val
        /\ trues[c] = MaxRows
        /\ Len(fetched[c]) = 2


\* C2 as stated: once a cursor has moved past a result set that arrived with
\* fewer rows than its total, exactly one Xclose for it has been queued.
C2_Original ==
    \A id \in Ids :
        (hist[id].partial /\ hist[id].passed) => hist[id].closes = 1

\* C2: once a cursor has moved past a result set that arrived with fewer rows
\* than its total, exactly one Xclose for it has been queued, unless
\* queue_close found the socket slot emptied by Connection::close, in which
\* case none has; no result set ever gets two, and none that arrived complete
\* or was not passed gets one.
C2_OneXclose ==
    \A id \in Ids :
        /\ hist[id].closes <= 1
        /\ hist[id].closes = 1 => (hist[id].partial /\ hist[id].passed)
        /\ (hist[id].partial /\ hist[id].passed /\ hist[id].closes = 0)
              => (dropped /\ ~sock /\ holder = 0)

\* A cursor has moved past a partial result set and its Xclose is queued or sent.
C2_Witness ==
    \E id \in Ids :
        hist[id].partial /\ hist[id].passed /\ hist[id].closes = 1

\* Whether the reply to statement `stmt` has a line starting with '!'.
HasError(stmt) == \E i \in 1..Len(Scripts[stmt]) : Scripts[stmt][i] = "err"

\* The content of the first error line of the reply, without its '!'.
FirstErrorText(stmt) ==
    <<N(FirstIndex(1, Len(Scripts[stmt]), LAMBDA i : Scripts[stmt][i] = "err"))>>

C4_ServerErrorNotFatal ==
    /\ [](\A c \in Cursors :
            Returned(c, "execute", "Server")
            => /\ replies[c].kind = "Exhausted"
               /\ (holder = 0 /\ ~dropped /\ ~poisoned) => sock)
    /\ [][\A c \in Cursors :
            /\ (Returned(c, "execute", "Server") /\ op'[c].name = "execute")
                 => pc'[c] = "want_cmd"
            /\ (erred[c] /\ pc[c] = "want_cmd" /\ holder = 0 /\ sock /\ ~poisoned
                 /\ pc'[c] # pc[c])
                 => (pc'[c] = "in_cmd" /\ holder' = c)]_vars

\* An execute succeeded on a cursor whose earlier execute returned Err(Server).
C4_Witness ==
    \E c \in Cursors : erred[c] /\ Returned(c, "execute", "Ok")

\* A next_row call made by an idle cursor returns at once.
NextRowReturnsAtOnce(c) ==
    /\ pc[c] = "idle" /\ pc'[c] = "idle"
    /\ ret'[c].name = "next_row"
    /\ <<ret[c], replies[c]>> # <<ret'[c], replies'[c]>>

\* Whether the cursor's current window still holds a row.
RowBuffered(c) ==
    replies[c].rs.row_set.buf # <<>> /\ replies[c].rs.row_set.buf[1] = LBR

\* C5 as stated: after Connection::close(), the next row access of a cursor
\* that is on a result set returns Err(Closed).
C5_Original ==
    [][\A c \in Cursors :
         (dropped /\ replies[c].kind = "Data" /\ NextRowReturnsAtOnce(c))
         => ret'[c].kind = "Closed"]_vars

\* C5: after Connection::close() has emptied the socket slot (the lock was
\* free and not poisoned), next_row on a result set still returns the rows of
\* the window it holds, Ok(false) at the end of the result set, and
\* Err(Closed) as soon as it needs the server; no cursor method panics, and
\* every method that needs the socket, execute among them, returns Err(Closed).
C5_AfterClose ==
    [][\A c \in Cursors :
         (dropped /\ holder = 0 /\ ~sock /\ ~poisoned)
         => /\ pc'[c] # "panicked"
            /\ (pc[c] \in Waiting /\ pc'[c] # pc[c])
                 => /\ ret'[c] = Ret(op[c].name, "Closed", FALSE, <<>>)
                    /\ pc'[c] = IF op[c].name = "close" THEN "gone" ELSE "idle"
            /\ (replies[c].kind = "Data" /\ NextRowReturnsAtOnce(c))
                 => /\ ret'[c].kind = "Ok"
                    /\ ret'[c].val = RowBuffered(c)
            /\ (pc[c] = "idle" /\ op'[c].name = "execute") => pc'[c] \in Waiting]_vars

\* After the connection was closed, a cursor that had returned rows went for
\* more and got Err(Closed).
C5_Witness ==
    \E c \in Cursors :
        /\ dropped
        /\ replies[c].kind = "Data"
        /\ trues[c] >= 1
        /\ Returned(c, "next_row", "Closed")

\* C6 as stated: once close() has run and no run_locked call is in progress,
\* the socket slot is empty.
C6_SlotEmptyAfterClose == (closing /\ holder = 0) => ~sock

\* C7 as stated: on a poisoned mutex a run_locked call does not panic but
\* reports the connection closed.
C7_NoPanicOnPoison ==
    [][\A c \in Cursors :
         (poisoned /\ pc[c] \in Waiting /\ pc'[c] # pc[c])
         => (pc'[c] # "panicked" /\ ret'[c].kind = "Closed")]_vars

\* Whether `a` is the start of `b`.
IsPrefix(a, b) == Len(a) <= Len(b) /\ a = SubSeq(b, 1, Len(a))

\* C8: the bytes a MapiBuf produces for a message m (any split of m into
\* append calls, then end and reset), handed to a BlockState in slices of any
\* sizes, never make it fail, yield a prefix of m at every point, and once all
\* bytes are handed over yield exactly m and leave the state End; the state is
\* End only then.
C8_RoundTrip ==
    (src = "writer" /\ mode = "blocks")
    => /\ stage # "failed"
       /\ IsPrefix(out, m)
       /\ (stage = "read" /\ rd.pos = Len(stream)) => (out = m /\ rd.state = End)
       /\ rd.state = End => (stage = "read" /\ rd.pos = Len(stream))

\* A message of two full blocks and a byte, appended in pieces, came out whole
\* after the BlockState was fed in slices.
C8_Witness ==
    /\ src = "writer" /\ mode = "blocks"
    /\ Len(m) = 2 * BLOCKSIZE + 1
    /\ nappend >= 2
    /\ nread >= 3
    /\ rd.state = End
    /\ out = m

\* The message the reader is on, and the stream offset where it ends.
Expected == IF round = 1 THEN m ELSE Second
MessageEnd == IF round = 1 THEN Len(stream) - Len(Following) ELSE Len(stream)

\* C9: on a stream written by a MapiBuf, whatever the caller's buffer sizes
\* and the transport's read sizes, a MapiReader never fails, never takes a
\* byte past the end of its message, and delivers a prefix of the message; a
\* read into a non-empty buffer returns 0 only in state End, which is reached
\* exactly when the whole message has been delivered and the stream offset is
\* at the next message's header; further reads return 0 and change nothing. A
\* new reader on the same transport then delivers the next message.
C9_ReaderStopsAtEnd ==
    /\ []((src = "writer" /\ mode = "reader")
          => /\ stage # "failed"
             /\ stage = "read" => /\ rd.pos <= MessageEnd
                                  /\ IsPrefix(out, Expected)
                                  /\ rd.state = End <=> rd.pos = MessageEnd
                                  /\ rd.state = End => out = Expected)
    /\ [][(src = "writer" /\ mode = "reader" /\ stage = "read" /\ round' = round)
          => /\ (rres'.n = 0 /\ rres'.err = "") => rd'.state = End
             /\ rd.state = End => (rres'.n = 0 /\ rres'.err = "" /\ rd' = rd /\ out' = out)]_vars

\* After a long first message, a second reader delivered the next message
\* and its read returned 0.
C9_Witness ==
    /\ src = "writer" /\ mode = "reader"
    /\ Len(m) = 2 * BLOCKSIZE + 1
    /\ round = 2
    /\ rd.state = End
    /\ out = Second
    /\ rd.pos = Len(stream)
    /\ nread >= 1

\* The size a two-byte header announces.
Announced(lo, hi) == (lo + 256 * hi) \div 2

\* C10: a header announcing more than BLOCKSIZE bytes makes the BlockState
\* fail with InvalidBlockSize, whether its two bytes arrive together or the
\* second arrives in state PartialHeader; the header 0x01 0x00 is accepted and
\* ends the message without payload; the header 0x00 0x00 of an empty block
\* that is not the last is skipped and leaves the state Start.
C10_Headers ==
    [][(mode = "blocks" /\ stage = "read" /\ rd'.pos > rd.pos)
       => LET d == SubSeq(stream, rd.pos + 1, rd'.pos)
          IN /\ (rd.state = Start /\ Len(d) >= 2 /\ Announced(d[1], d[2]) > BLOCKSIZE)
                  => (rres'.err = "InvalidBlockSize" /\ stage' = "failed")
             /\ (rd.state.tag = "PartialHeader"
                 /\ Announced(rd.state.lo, d[1]) > BLOCKSIZE)
                  => (rres'.err = "InvalidBlockSize" /\ stage' = "failed")
             /\ (rd.state = Start /\ d = <<1, 0>>)
                  => (rres'.err = "" /\ rd'.state = End /\ out' = out)
             /\ (rd.state = PartialHeader(1) /\ d = <<0>>)
                  => (rres'.err = "" /\ rd'.state = End /\ out' = out)
             /\ (rd.state = Start /\ d = <<0, 0>>)
                  => (rres'.err = "" /\ rd'.state = Start /\ out' = out)
             /\ (rd.state = PartialHeader(0) /\ d = <<0>>)
                  => (rres'.err = "" /\ rd'.state = Start /\ out' = out)]_vars

\* An oversized header whose second byte arrived in state PartialHeader was
\* refused.
C10_Witness ==
    /\ mode = "blocks"
    /\ stage = "failed"
    /\ rres.err = "InvalidBlockSize"
    /\ rd.state.tag = "PartialHeader"

\* The blocks of the byte string `raw` from offset `pos` on: the size and the
\* last flag each two-byte header declares.
RECURSIVE Blocks(_, _)
Blocks(raw, pos) ==
    IF pos + 2 > Len(raw) THEN <<>>
    ELSE <<[size |-> Announced(raw[pos + 1], raw[pos + 2]),
            last |-> raw[pos + 1] % 2 = 1]>>
         \o Blocks(raw, pos + 2 + Announced(raw[pos + 1], raw[pos + 2]))

\* The blocks MapiBuf::reset would hand to the transport.
Written == Blocks(reset(mb).raw, 0)

\* C11 as stated: after end() the last block carries last=1, the blocks before
\* it last=0, none declares more than BLOCKSIZE bytes, and a message of a
\* non-zero multiple of BLOCKSIZE bytes is followed by an empty last block.
C11_Original ==
    stage = "ended"
    => /\ Written # <<>>
       /\ \A i \in 1..Len(Written) :
             /\ Written[i].last <=> i = Len(Written)
             /\ Written[i].size <= BLOCKSIZE
       /\ (Len(m) > 0 /\ Len(m) % BLOCKSIZE = 0)
             => /\ Len(Written) = Len(m) \div BLOCKSIZE + 1
                /\ Written[Len(Written)].size = 0

\* C11: after end() the last block carries last=1 and the blocks before it
\* last=0; every block before the last holds exactly BLOCKSIZE bytes and the
\* last holds the rest, so none declares more than BLOCKSIZE; a message of a
\* non-zero multiple of BLOCKSIZE bytes ends in a full block with last=1, and
\* an empty block is written only for the empty message.
C11_EndClosesBlock ==
    stage = "ended"
    => /\ Len(Written) = (IF Len(m) = 0 THEN 1 ELSE Ceil(Len(m), BLOCKSIZE))
       /\ \A i \in 1..Len(Written) :
             /\ Written[i].last <=> i = Len(Written)
             /\ Written[i].size <= BLOCKSIZE
             /\ i < Len(Written) => Written[i].size = BLOCKSIZE
       /\ Written[Len(Written)].size = Len(m) - (Len(Written) - 1) * BLOCKSIZE
       /\ Written[Len(Written)].size = 0 <=> Len(m) = 0

\* A message of two full blocks, appended in pieces, was ended: its second
\* block is full and carries the last flag.
C11_Witness ==
    /\ stage = "ended"
    /\ Len(m) = 2 * BLOCKSIZE
    /\ nappend >= 2
    /\ Len(Written) = 2
    /\ Written[2] = [size |-> BLOCKSIZE, last |-> TRUE]

\* ------------------------------------------------------------ C12 .. C15
\* The server's answer that ended the last turn was a redirect to another
\* server / the proxy's request to restart.
RedirectAnswer(o) ==
    /\ o.reply # <<>> /\ o.reply[1].lead = "^" /\ o.reply[1].body # ProxyUrl
ProxyAnswer(o) ==
    /\ o.reply # <<>> /\ o.reply[1].lead = "^" /\ o.reply[1].body = ProxyUrl

\* The server the Parameters `p` name.
ServerOf(p) == {validate(p).connect_unix, validate(p).connect_tcp} \ {""}

\* C12: redirects are bounded to 10 hops.  At most 10 sockets are opened; a
\* redirect is followed by applying its URL to the parameters and the next
\* step opens a new socket to the server they name; a redirect in answer to
\* the 10th connection fails with TooManyRedirects; an accepted login
\* returns the connection that was opened last, to the server the last URL
\* named.
C12_Followed ==
    (where = "login" /\ RedirectAnswer(outcome') /\ cur'.rounds # cur.rounds)
    => /\ apply_url(parms, outcome'.reply[1].body).err = ""
          => /\ parms' = apply_url(parms, outcome'.reply[1].body).parms
             /\ outcome'.kind = IF nsock = RedirectLimit THEN "TooManyRedirects"
                                ELSE "Redirect"
             /\ where' = IF nsock = RedirectLimit THEN "done" ELSE "connect"
       /\ nsock' = nsock
C12_NewSocket ==
    (where = "connect" /\ where' = "login")
    => /\ nsock' = nsock + 1
       /\ cur'.id = nsock'
       /\ cur'.to \in ServerOf(parms)
       /\ parms' = parms
C12_Bounded ==
    /\ nsock <= RedirectLimit
    /\ hops <= RedirectLimit
    /\ nsock <= hops
    /\ outcome.kind = "TooManyRedirects" => nsock = RedirectLimit /\ where = "done"
    /\ (where = "done" /\ outcome.kind = "Ok")
       => /\ established.sock = nsock
          /\ cur.id = nsock
          /\ cur.to \in ServerOf(parms)
C12_RedirectsBounded ==
    /\ []C12_Bounded
    /\ [][C12_Followed /\ C12_NewSocket]_vars
C12_Witness ==
    /\ where = "done" /\ outcome.kind = "TooManyRedirects"
    /\ nsock = RedirectLimit /\ RedirectAnswer(outcome)
    /\ restarts > 0

\* C13: on '^mapi:merovingian://proxy' the handshake restarts on the same
\* socket: the parameters, the socket and the count of hops are unchanged,
\* and the next thing the client does is another round of challenge and
\* response on that socket.
C13_Restarted ==
    (where = "login" /\ ProxyAnswer(outcome') /\ cur'.rounds # cur.rounds)
    => /\ outcome'.kind = "Restart"
       /\ where' = "login"
       /\ nsock' = nsock /\ hops' = hops /\ parms' = parms
       /\ cur'.id = cur.id /\ cur'.to = cur.to
C13_NextIsChallenge ==
    (where = "login" /\ outcome.kind = "Restart")
    => /\ cur'.rounds = cur.rounds + 1
       /\ cur'.id = cur.id
       /\ nsock' = nsock /\ hops' = hops
C13_ProxyRestarts == [][C13_Restarted /\ C13_NextIsChallenge]_vars
C13_Witness ==
    /\ where = "done" /\ outcome.kind = "Ok"
    /\ restarts = MaxRestarts /\ nsock = 1 /\ hops = 1 /\ cur.rounds = MaxRestarts + 1

\* The number of commands a login with parameters `p` leaves for after the
\* handshake, on a server of option level `level`: one for every setting
\* that differs from the server's default and that the level does not
\* cover, one for the size header, one for the client info.
Leftover(p, level, clientinfo) ==
    (IF ~p.autocommit /\ level <= 1 THEN 1 ELSE 0)
    + (IF p.replysize # 100 /\ level <= 2 THEN 1 ELSE 0)
    + (IF level <= 3 THEN 1 ELSE 0)
    + (IF p.timezone # 0 /\ level <= 5 THEN 1 ELSE 0)
    + (IF clientinfo /\ p.client_info THEN 1 ELSE 0)

LoggedIn == where = "done" /\ outcome.kind = "Ok"

HashedBytes == answer.response.hashed_password[1].of

\* A response was made for the configured password (the server did not ask
\* for the merovingian login).
ResponseMade ==
    /\ where = "done" /\ answer # <<>> /\ chal # <<>>
    /\ chal.server_type # "merovingian"

\* C15: when the configured password begins with the marker byte 0x01, the
\* bytes hashed for the session hash are the rest of the password followed
\* by the salt, otherwise the hex digest of the password under the server's
\* prehash algorithm followed by the salt; so a login with the marker and
\* the hex prehash is accepted exactly when a login with the plaintext
\* password is.
C15_PrehashedVerbatim ==
    ResponseMade =>
        /\ HashedBytes =
              (IF starts_with(parms.password, <<Marker>>) THEN Tail(parms.password)
               ELSE hex_digest(find_algo(chal.prehash_algo), parms.password))
              \o chal.salt
        /\ (parms.password = PasswordHashed /\ parms.user = ServerUser
            /\ outcome.reply # <<>> /\ outcome.reply[1].lead \in {"=OK", "#", "!"})
           => outcome.kind = "Ok"

\* ------------------------------------------------------------ C17, C18
\* The place in `buf` of the header line of the first result set, or 0.
FirstResultSet(buf) ==
    FirstIndex(1, Len(buf) - 3,
               LAMBDA i : /\ buf[i] = AMP /\ buf[i + 1] = T("1")
                          /\ (i = 1 \/ buf[i - 1] = NL))

\* C17: next_row called while the current reply is not a result set moves
\* the cursor to the first result set that follows, passing none, and
\* returns its first row (Ok(false) when that result set has no rows, and
\* after a fetch when its rows did not come with the reply); when no result
\* set follows it returns Err(NoResultSet) with the cursor Exhausted.
C17_SkipsToResultSet ==
    [][\A c \in Cursors :
         (pc[c] = "idle" /\ replies[c].kind # "Data" /\ NextRow(c))
         => IF FirstResultSet(replies[c].buf) = 0
            THEN /\ ret'[c] = Ret("next_row", "NoResultSet", FALSE, <<>>)
                 /\ replies'[c].kind = "Exhausted"
                 /\ pc'[c] = "idle"
            ELSE /\ replies'[c].kind = "Data"
                 /\ replies'[c].rs.result_id
                       = replies[c].buf[FirstResultSet(replies[c].buf) + 3].n
                 /\ pc'[c] = "idle"
                       => /\ ret'[c].kind = "Ok"
                          /\ ret'[c].val = (replies'[c].rs.total_rows > 0)
                          /\ ret'[c].val
                                => /\ replies'[c].rs.row_set.fields = N(0)
                                   /\ replies'[c].rs.next_row = 1
                 /\ pc'[c] # "idle" => pc'[c] = "want_fetch"]_vars
C17_Witness ==
    \E c \in Cursors :
        /\ Returned(c, "next_row", "Ok") /\ ret[c].val
        /\ replies[c].kind = "Data"
        /\ replies[c].rs.next_row = 1
        /\ trues[c] = 1
        /\ hist[replies[c].rs.result_id].passed = FALSE
        /\ nexec = 1 /\ Len(results) = 1 /\ ~erred[c]
        /\ replies[c].rs.row_set.buf # <<>>
        /\ replies[c].rs.total_rows = 1
        /\ replies[c].rs.row_set.buf[2] = T("2")

\* C18: on a result set all of whose total_rows rows have been delivered,
\* next_row returns Ok(false), sends nothing to the server and leaves the
\* cursor on that result set, however often it is called and whether or not
\* another result set follows.
C18_StaysAtEnd ==
    [][\A c \in Cursors :
         (/\ pc[c] = "idle" /\ replies[c].kind = "Data"
          /\ replies[c].rs.next_row = replies[c].rs.total_rows
          /\ NextRow(c))
         => /\ ret'[c] = Ret("next_row", "Ok", FALSE, <<>>)
            /\ pc'[c] = "idle"
            /\ replies'[c] = replies[c]
            /\ UNCHANGED <<connVars, serverVars, trues, fetched, hist>>]_vars
C18_Witness ==
    \E c \in Cursors :
        /\ Returned(c, "next_row", "Ok") /\ ~ret[c].val
        /\ replies[c].kind = "Data"
        /\ trues[c] = replies[c].rs.total_rows /\ trues[c] >= 1
        /\ FirstResultSet(replies[c].rs.row_set.buf) = 1

\* ------------------------------------------------------------------ C16
\* C16 as stated: for every reply made of well-formed sections, with any
\* number of the rows of its result sets consumed, repeated into_next_reply
\* visits every section once, in wire order, and then reaches Exhausted; in
\* Exhausted next_reply returns false and the state stays Exhausted.
C16_Visited ==
    /\ Len(seen) <= Len(sections)
    /\ \A i \in 1..Len(seen) : seen[i] = sections[i]
    /\ parser.kind = "Exhausted" => seen = sections
    /\ more \in {"true", "false"}
C16_VisitsInOrder ==
    /\ []C16_Visited
    /\ [][parser.kind = "Exhausted" => (parser'.kind = "Exhausted" /\ more' = "false")]_vars

\* ------------------------------------------------------------ C19, C20
\* The row of the wire the window is at after advance() returned true.
CurrentRow == wire[nadv]

\* C19: after advance() returned true on a row of n columns there are n
\* slots; slot i is None exactly when field i was written as the unquoted
\* token NULL; every other slot holds the bytes of the field, so a quoted
\* NULL yields the four bytes NULL, a quoted empty field the empty string
\* and an escaped field its unescaped bytes.
C19_Slots ==
    adv = "true" =>
        /\ Len(win.fields) = Len(CurrentRow)
        /\ \A i \in 1..Len(CurrentRow) :
              /\ win.fields[i].null <=> CurrentRow[i] = Unquoted(NULL)
              /\ ~win.fields[i].null => win.fields[i].bytes = CurrentRow[i].bytes
              /\ get_field_raw(win, i - 1) = win.fields[i]
C19_Witness ==
    /\ adv = "true" /\ nadv = 1
    /\ wire[1] = <<Unquoted(NULL), Quoted(NULL)>>
    /\ win.fields = <<NullSlot, Slot(FALSE, NULL)>>
    /\ got.ty = "str" /\ got.col = 1 /\ got.res = Got("Ok", TRUE, NULL)

\* C20: a getter of any type returns Ok(None) when the slot is NULL, when
\* the column index is not below the number of columns, when advance() has
\* not been called on the window, and when the last advance() returned false.
C20_NoValue ==
    got.ty # "" =>
        ((\/ adv = ""
          \/ adv = "false"
          \/ got.col >= win.ncols
          \/ adv = "true" /\ CurrentRow[got.col + 1] = Unquoted(NULL))
         => got.res = OkNone)
C20_Witness ==
    /\ adv = "false" /\ nadv = MaxWindow
    /\ wire[nadv] = <<Unquoted(<<"9">>)>>
    /\ got.ty = "i8" /\ got.col = 0 /\ got.res = OkNone

\* ------------------------------------------------------------ C21, C22
\* The slot of the quoted field after advance() returned true.
Decoded == get_field_raw(win, wire.col)

AfterQuote ==
    wire.body.plain \o wire.body.esc \o wire.body.rest
    \o Trailer(wire.col, wire.cut)
BackslashAt == Len(wire.body.plain) + 1
Avail == Len(AfterQuote) - BackslashAt
HasEscape == wire.body.kind = "escape" /\ wire.body.esc # <<>>
OctalLead == {"0", "1", "2", "3"}
Octals == {"0", "1", "2", "3", "4", "5", "6", "7"}
LoneBackslash == HasEscape /\ Avail = 0
BadFollower ==
    /\ HasEscape /\ Avail >= 1
    /\ AfterQuote[BackslashAt + 1]
          \notin {"t", "n", "r", "f", BACKSLASH, QUOTE} \cup OctalLead
OctalEscape ==
    HasEscape /\ Avail >= 1 /\ AfterQuote[BackslashAt + 1] \in OctalLead
BadOctal ==
    /\ OctalEscape /\ Avail >= 3
    /\ \/ AfterQuote[BackslashAt + 2] \notin Octals
       \/ AfterQuote[BackslashAt + 3] \notin Octals
GoodOctal == OctalEscape /\ Avail >= 3 /\ ~BadOctal
OctalByte ==
    Chr(64 * (Ord(AfterQuote[BackslashAt + 1]) - 48)
        + 8 * (Ord(AfterQuote[BackslashAt + 2]) - 48)
        + (Ord(AfterQuote[BackslashAt + 3]) - 48))
\* The index of the last byte of the escape, and the index of the first quote
\* after it, 0 if there is none.
EscapeEnd ==
    IF ~HasEscape THEN 0 ELSE Min(Len(AfterQuote),
                                  BackslashAt + (IF OctalEscape THEN 3 ELSE 1))
ClosingAt ==
    FirstIndex(EscapeEnd + 1, Len(AfterQuote), LAMBDA i : AfterQuote[i] = QUOTE)
\* The three statements of the claim about the escapes of a field that
\* has been met by advance().
InvalidReported ==
    (BadFollower \/ BadOctal) => adv = "InvalidBackslashEscape"
OctalDecoded ==
    (GoodOctal /\ ClosingAt # 0) =>
        /\ adv \in {"true", "false"}
        /\ adv = "true" =>
              Decoded = Slot(FALSE,
                             wire.body.plain \o <<OctalByte>>
                             \o SubSeq(AfterQuote, EscapeEnd + 1, ClosingAt - 1))

\* C22 as stated: an invalid escape fails with InvalidBackslashEscape, a
\* valid octal escape decodes to the byte 64*d1 + 8*d2 + d3, and every field
\* without invalid escape whose closing quote is missing fails with
\* UnexpectedEnd.
C22_Original ==
    (wire.body.kind = "escape" /\ adv # "") =>
        /\ InvalidReported
        /\ OctalDecoded
        /\ (~BadFollower /\ ~BadOctal /\ ClosingAt = 0)
              => adv = "UnexpectedEnd"

\* C22: once advance() has met the quoted field, it has failed with
\* InvalidBackslashEscape if the byte after the backslash is none of t n r f
\* \ " 0 1 2 3, if it is one of 0..3 and one of the next two bytes is no
\* octal digit, or if the reply ends with the backslash; a field of three
\* octal digits d1 d2 d3 and a closing quote holds the one byte
\* 64*d1 + 8*d2 + d3 in their place; any other field whose closing quote is
\* missing has failed with UnexpectedEnd.
C22_Escapes ==
    (wire.body.kind = "escape" /\ adv # "") =>
        /\ InvalidReported
        /\ OctalDecoded
        /\ LoneBackslash => adv = "InvalidBackslashEscape"
        /\ (~LoneBackslash /\ ~BadFollower /\ ~BadOctal /\ ClosingAt = 0)
              => adv = "UnexpectedEnd"
C22_Witness ==
    /\ wire.body = FieldBody("escape", <<>>, <<"a">>,
                             <<BACKSLASH, "3", "7", "7">>, <<"7", QUOTE>>)
    /\ wire.col = 1 /\ adv = "true"
    /\ Decoded.bytes = <<"a", ByteFF, "7">>

\* ------------------------------------------------------------------ C23
\* Cursor c's close() or drop returns in this step without having been
\* refused the socket.
CloseReturns(c) ==
    /\ pc[c] # "gone" /\ pc'[c] = "gone"
    /\ ret'[c].name = "close" /\ ret'[c].kind \in {"Ok", "Server"}

\* What close() and drop leave behind: the cursor Exhausted, no unsent bytes
\* and no expected responses in the queue and, when no acknowledgement was an
\* error, every answer of the server read and every result set the cursor
\* passed released by the server.
C23_Drained ==
    \A c \in Cursors :
        CloseReturns(c) =>
            /\ replies'[c] = Exhausted
            /\ delayed' = [buffer |-> EmptyBuf, responses |-> <<>>]
            /\ ret'[c].kind = "Ok" =>
                  /\ sockIn' = <<>>
                  /\ sock'
                  /\ \A id \in 1..Len(results') :
                        (hist'[id].partial /\ hist'[id].passed)
                        => ~results'[id].open

\* No run_locked call of close() or drop ends in a panic.
C23_NoPanic ==
    \A c \in Cursors :
        (op[c].name = "close" /\ pc[c] \in Waiting /\ pc'[c] # pc[c])
        => pc'[c] # "panicked"

\* C23: a close() or drop that reaches the server leaves the cursor
\* Exhausted and the delayed queue without unsent bytes and expected
\* responses, every Xclose of a passed partial result set written and every
\* acknowledgement read; and no close() or drop panics, whatever it meets.
C23_DropDrains == [][C23_Drained /\ C23_NoPanic]_vars

\* ------------------------------------------------------------------ C24
\* The limit the bounded read was given, and where the next message starts.
Limit == limit + Len(out)
NextMessage == Len(stream) - Len(Following)

\* C24: the bounded read ends in success exactly when the payload of the
\* message is at most the limit, however the message is split into blocks;
\* on success the whole payload has been delivered and the transport is at
\* the first byte of the next message.
C24_LimitedRead ==
    /\ stage \in {"ok", "too long"} => (stage = "ok" <=> Len(m) <= Limit)
    /\ stage = "ok" => (out = m /\ rd.pos = NextMessage)
    /\ stage # "failed"

\* ------------------------------------------------------------------ C25
\* The positions of a cursor inside the closure of a run_locked call, and
\* those where it has written its request and not yet read the reply.
InClosure == {"in_close", "in_cmd", "in_fetch", "in_flush", "rd_cmd", "rd_fetch", "rd_flush"}
Awaiting == {"rd_cmd", "rd_fetch", "rd_flush"}

\* At most one cursor is inside a closure; it holds the lock and the socket
\* is out of its slot; the request on the wire is its own.
C25_OneInside ==
    \A c \in Cursors :
        /\ pc[c] \in InClosure =>
              /\ holder = c /\ ~sock
              /\ \A d \in Cursors \ {c} : pc[d] \notin InClosure
        /\ pc[c] \in Awaiting => sockOut.by = c

\* A step that writes to or reads from the socket is a step of the cursor
\* that holds the lock, and of no other cursor; while a cursor waits for its
\* reply only its own read touches the socket, and that read ends the wait
\* inside the same run_locked call.
C25_OwnSteps ==
    (sockIn' # sockIn \/ sockOut' # sockOut) =>
        /\ holder \in Cursors
        /\ pc[holder] \in InClosure
        /\ pc'[holder] # pc[holder]
        /\ \A d \in Cursors \ {holder} : pc'[d] = pc[d]
        /\ \A c \in Cursors : pc[c] \in Awaiting => (c = holder /\ pc'[c] \notin InClosure)
        /\ sockOut' # sockOut => (sockOut'.by = holder /\ pc'[holder] \in Awaiting)

\* C25: every use of the socket happens inside a run_locked call that holds
\* it exclusively: no two cursors are inside a closure at once, and between
\* a cursor's write of a request and its read of the reply no other cursor
\* writes to or reads from the socket.
C25_Exclusive == [][C25_OneInside /\ C25_OneInside' /\ C25_OwnSteps]_vars

\* A cursor is waiting for its reply while the other waits for the lock,
\* after the other's own request was served.
C25_Witness ==
    /\ pc[2] \in Awaiting /\ sockOut.by = 2
    /\ pc[1] \in Waiting
    /\ erred[1] = FALSE /\ nexec = 2

\* ------------------------------------------------------------------ C26
\* Whether the closure cursor c is in returns an error where it stands: its
\* recv_delayed meets an acknowledgement that is an error.
ClosureFails(c) ==
    /\ pc[c] \in Awaiting
    /\ recv_delayed(delayed.responses, sockIn).err # ""

\* A run_locked call returns (its closure did not panic): the socket is in
\* the slot exactly when the closure returned Ok.
C26_Returns ==
    \A c \in Cursors :
        (holder = c /\ holder' = 0 /\ ~poisoned') =>
            /\ sock' = ~ClosureFails(c)
            /\ ClosureFails(c) => ret'[c].kind \notin {"Ok", "Closed"}

\* With the slot empty and the lock free, the slot stays empty and a
\* run_locked call returns Closed without entering its closure.
C26_Refuses ==
    (~sock /\ holder = 0 /\ ~poisoned) =>
        /\ ~sock' /\ holder' = 0 /\ ~poisoned'
        /\ sockIn' = sockIn /\ sockOut' = sockOut /\ delayed' = delayed
        /\ \A c \in Cursors :
              (pc[c] \in Waiting /\ pc'[c] # pc[c]) =>
                  (pc'[c] \notin InClosure /\ pc'[c] \notin Waiting
                   /\ ret'[c].kind = "Closed")

\* C26: when the closure of run_locked returns an error the socket is not put
\* back, and every later run_locked call of any cursor fails with Closed
\* without calling its closure; when the closure succeeds the socket is back
\* in the slot.
C26_SocketDropped == [][C26_Returns /\ C26_Refuses]_vars

\* A closure of the first cursor returned an error, and a call of the second
\* cursor was refused after it.
C26_Witness ==
    /\ ~sock /\ holder = 0 /\ ~closing /\ ~poisoned
    /\ ret[1].kind = "Server" /\ pc[1] = "idle"
    /\ ret[2].kind = "Closed" /\ pc[2] = "idle"

\* ------------------------------------------------------------------ C27
\* The first acknowledgement on the socket that is an error, among those of
\* the expected responses; 0 when none is.
FirstRefusal ==
    FirstIndex(1, Len(delayed.responses),
               LAMBDA i : sockIn[i] # <<>> /\ sockIn[i][1] = BANG)

\* An execute reads its replies while an acknowledgement of a delayed command
\* is an error: it returns Server("delayed <label>: <text>") with the label
\* of that command.
C27_Reported ==
    \A c \in Cursors :
        (pc[c] = "rd_cmd" /\ pc'[c] # "rd_cmd" /\ ~poisoned' /\ FirstRefusal # 0) =>
            /\ ret'[c].name = "execute" /\ ret'[c].kind = "Server"
            /\ ret'[c].text = <<T("delayed"), T(delayed.responses[FirstRefusal])>>
                                \o Tail(sockIn[FirstRefusal])

\* ... and the socket is in its slot afterwards.
C27_SocketStays ==
    \A c \in Cursors :
        (pc[c] = "rd_cmd" /\ pc'[c] # "rd_cmd" /\ ~poisoned' /\ FirstRefusal # 0) => sock'

\* C27: a server error in the acknowledgement of a delayed command is
\* reported by the execute that drains it, as Server("delayed <label>:
\* <text>") with the label of that command, and the connection survives it:
\* the socket stays in its slot, so that a later execute is not refused.
C27_DelayedError == [][C27_Reported /\ C27_SocketStays]_vars

\* ------------------------------------------------------------------ C28
\* The statement message of the execute cursor c is in.
StatementOf(c) == <<T("s"), N(op[c].arg), T("\n;")>>

\* The write of an execute: the queued messages in queue order and then the
\* statement, all at once, inside the run_locked call; the queue is left
\* without unsent bytes and the server owes one reply per expected response
\* and one for the statement.
C28_Writes ==
    \A c \in Cursors :
        (pc[c] = "in_cmd" /\ pc'[c] # "in_cmd" /\ ~poisoned') =>
            /\ holder = c /\ holder' = c /\ pc'[c] = "rd_cmd"
            /\ sockOut' = [by |-> c,
                           msgs |-> delayed.buffer.msgs \o <<StatementOf(c)>>,
                           acks |-> delayed.responses]
            /\ delayed' = [buffer |-> EmptyBuf, responses |-> delayed.responses]
            /\ Len(sockIn') = Len(delayed.responses) + 1

\* The reads of an execute, in the same run_locked call as its write: one
\* message per expected response, first to last, and then the statement's
\* reply, which is the message it parses; an acknowledgement that is an error
\* ends the reading there.  Either way no response is expected afterwards and
\* nothing is left to send.
C28_Reads ==
    \A c \in Cursors :
        (pc[c] = "rd_cmd" /\ pc'[c] # "rd_cmd" /\ ~poisoned') =>
            /\ holder = c /\ holder' = 0 /\ sockOut.by = c
            /\ delayed' = [buffer |-> EmptyBuf, responses |-> <<>>]
            /\ IF FirstRefusal = 0
               THEN /\ Len(sockIn) = Len(delayed.responses) + 1
                    /\ sockIn' = <<>>
                    /\ sock'
                    /\ replies'[c] = AfterCommand(op[c], sockIn[Len(sockIn)]).replies
                    /\ ret'[c] = AfterCommand(op[c], sockIn[Len(sockIn)]).ret
               ELSE /\ sockIn' = SubSeq(sockIn, FirstRefusal + 1, Len(sockIn))
                    /\ ~sock'

\* C28: inside one run_locked call execute writes the queued delayed commands
\* and then the statement, in queue order and in one write, then reads one
\* reply per expected response in FIFO order and only then the reply it takes
\* for the statement's; after a successful call no response is expected and the
\* pending buffer is empty.
C28_Piggyback == [][C28_Writes /\ C28_Reads]_vars

\* An execute wrote two queued commands ahead of its statement and returned
\* after reading their acknowledgements and its reply.
C28_Witness ==
    /\ pc[1] = "idle" /\ ret[1].name = "execute" /\ ret[1].kind = "Ok"
    /\ Len(sockOut.msgs) = 3 /\ Len(sockOut.acks) = 2
    /\ sockOut.msgs[1] # sockOut.msgs[2]
    /\ sockIn = <<>> /\ delayed = [buffer |-> EmptyBuf, responses |-> <<>>] /\ sock

\* ------------------------------------------------------------------ C29
\* The answer without the white space around it, by position rather than by
\* stripping.
FirstInk == FirstIndex(1, Len(answer), LAMBDA i : answer[i] \notin {" ", "\n"})
LastInk == Len(answer) + 1
           - FirstIndex(1, Len(answer),
                        LAMBDA i : answer[Len(answer) + 1 - i] \notin {" ", "\n"})
TrimmedAnswer == IF FirstInk = 0 THEN <<>> ELSE SubSeq(answer, FirstInk, LastInk)
\* Where the first line of the trimmed answer ends.
LineEnd ==
    IF \E i \in 1..Len(TrimmedAnswer) : TrimmedAnswer[i] = "\n"
    THEN FirstIndex(1, Len(TrimmedAnswer), LAMBDA i : TrimmedAnswer[i] = "\n") - 1
    ELSE Len(TrimmedAnswer)
StartsWith(prefix) ==
    /\ Len(TrimmedAnswer) >= Len(prefix)
    /\ \A i \in 1..Len(prefix) : TrimmedAnswer[i] = prefix[i]

\* The outcome the answer calls for.
Called ==
    CASE TrimmedAnswer = <<>> \/ StartsWith(<<"=", "OK">>) -> Classified("Complete", <<>>)
      [] StartsWith(<<"^", "mapi:merovingian:", "//proxy">>) -> Classified("Restart", <<>>)
      [] StartsWith(<<"^">>) /\ ~StartsWith(<<"^", "mapi:merovingian:", "//proxy">>) ->
            Classified("Redirect", SubSeq(TrimmedAnswer, 2, LineEnd))
      [] StartsWith(<<"!">>) -> Classified("Rejected", SubSeq(TrimmedAnswer, 2, Len(TrimmedAnswer)))
      [] StartsWith(<<"#">>) -> Classified("Complete", <<>>)
      [] OTHER -> Classified("UnexpectedResponse", TrimmedAnswer)

\* C29: the answer to the login response is classified from its trimmed
\* text: empty or starting with =OK, login complete; starting with
\* ^mapi:merovingian://proxy, restart; starting with ^ otherwise, a redirect
\* to the rest of the first line; starting with !, Rejected with the message;
\* starting with #, login complete; anything else, UnexpectedResponse.  Every
\* answer has exactly one of these outcomes.
C29_Classified ==
    where = "classified" =>
        /\ outcome = Called
        /\ outcome.kind \in {"Complete", "Restart", "Redirect", "Rejected",
                             "UnexpectedResponse"}

\* A redirect whose answer went on after the first line.
C29_Witness ==
    /\ where = "classified" /\ outcome.kind = "Redirect"
    /\ Len(outcome.text) = 1 /\ Len(TrimmedAnswer) = 4

\* ------------------------------------------------------------------ C30
\* challenge_response made a response for the sql language.
Responding == where = "done" /\ answer # <<>> /\ answer.err = "" /\ parms.language = "sql"

\* The options the application's settings call for: index, key, value and
\* the first word of the command that sets it after login.
Option(idx, key, value, word) == [idx |-> idx, key |-> key, value |-> value, word |-> word]
AllOptions ==
    {Option(1, "auto_commit", IF parms.autocommit THEN 1 ELSE 0, T("Xauto_commit")),
     Option(2, "reply_size", parms.replysize, T("Xreply_size")),
     Option(3, "size_header", 1, T("Xsizeheader")),
     Option(5, "time_zone", parms.timezone * 60, T("sSET TIME ZONE INTERVAL"))}
IsWanted(o) ==
    CASE o.idx = 1 -> ~parms.autocommit
      [] o.idx = 2 -> parms.replysize # 100
      [] o.idx = 3 -> TRUE
      [] o.idx = 5 -> parms.timezone # 0

\* The commands queued for after the login, sent or not.
QueuedCommands == established.written \o answer.delayed.buffer.msgs
\* How often the option is in the response, and how often queued.
SentInline(o) ==
    Cardinality({i \in 1..Len(answer.response.options) :
                    /\ answer.response.options[i].key = o.key
                    /\ answer.response.options[i].value = o.value})
SentDelayed(o) ==
    Cardinality({i \in 1..Len(QueuedCommands) : QueuedCommands[i][1] = o.word})

\* C30: every handshake option the settings call for (auto_commit and
\* reply_size when they differ from the server's defaults, size_header always,
\* time_zone when the offset is not zero) is in the login response when its
\* index is below the sql level the server advertised, and is otherwise
\* queued as one delayed command: never both, never neither; an option not
\* called for is conveyed in neither way; and the recorded server state holds
\* the requested values.
C30_Options ==
    Responding =>
        /\ \A o \in AllOptions :
              /\ SentInline(o) = (IF IsWanted(o) /\ o.idx < chal.sql_handshake_option_level
                                  THEN 1 ELSE 0)
              /\ SentDelayed(o) = (IF IsWanted(o) /\ o.idx >= chal.sql_handshake_option_level
                                   THEN 1 ELSE 0)
        /\ Len(answer.response.options)
               = Cardinality({o \in AllOptions : SentInline(o) = 1})
        /\ answer.state = [initial_auto_commit |-> parms.autocommit,
                           reply_size |-> parms.replysize,
                           time_zone_seconds |-> parms.timezone * 60]

\* A login at level 3: auto_commit went into the response, size_header and
\* time_zone were queued.
C30_Witness ==
    /\ Responding /\ LoggedIn
    /\ chal.sql_handshake_option_level = 3
    /\ Len(answer.response.options) = 1
    /\ answer.response.options[1].key = "auto_commit"
    /\ Len(QueuedCommands) = 2

\* ------------------------------------------------------------------ C31
\* C31: a result set's to_close holds its result id exactly when its header
\* announced fewer rows in the reply than the result set has, and is None
\* when the reply carried the whole result set; no Xclose is ever queued, or
\* about to be, for a result set that arrived whole, however the cursor
\* leaves it.
C31_ClosePending ==
    /\ \A c \in Cursors :
          replies[c].kind = "Data" =>
              replies[c].rs.to_close =
                  (IF hist[replies[c].rs.result_id].partial
                   THEN replies[c].rs.result_id ELSE None)
    /\ \A c \in Cursors :
          pc[c] \in {"want_close", "in_close"} =>
              (pend[c].close \in Ids /\ hist[pend[c].close].partial)
    /\ \A id \in Ids : ~hist[id].partial => hist[id].closes = 0

\* A cursor has left a result set that arrived whole and one that did not;
\* only the second has an Xclose.
C31_Witness ==
    \E id, other \in 1..Len(results) :
        /\ ~hist[id].partial /\ hist[id].passed /\ hist[id].closes = 0
        /\ hist[other].partial /\ hist[other].passed /\ hist[other].closes = 1

\* ------------------------------------------------------------------ C32
\* C32: whenever a cursor holds a result set, next_row is at most
\* total_rows, so that total_rows - next_row, which decide_next_fetch
\* computes in u64, does not underflow; a fetch is under way only while rows
\* remain.  This holds through every sequence of next_row calls and window
\* refetches.
C32_NextRowBounded ==
    \A c \in Cursors :
        replies[c].kind = "Data" =>
            /\ replies[c].rs.next_row \in 0..replies[c].rs.total_rows
            /\ pc[c] \in {"want_fetch", "in_fetch", "rd_fetch"} =>
                  /\ replies[c].rs.next_row < replies[c].rs.total_rows
                  /\ decide_next_fetch(replies[c], reply_size).n
                        \in 1..(replies[c].rs.total_rows - replies[c].rs.next_row)

\* A cursor stands at the end of a result set of MaxRows rows whose window
\* was fetched again, and next_row was called once more.
C32_Witness ==
    \E c \in Cursors :
        /\ replies[c].kind = "Data"
        /\ replies[c].rs.stashed.some
        /\ replies[c].rs.next_row = MaxRows /\ replies[c].rs.total_rows = MaxRows
        /\ Returned(c, "next_row", "Ok") /\ ~ret[c].val

\* ------------------------------------------------------------------ C33
\* The kind of parser state the section at the head of `buf` stands for.
SectionKind(buf) ==
    IF buf = <<>> THEN "Exhausted"
    ELSE IF buf[1] = BANG THEN "Error"
    ELSE IF buf[2] = T("1") THEN "Data"
    ELSE IF buf[2] = T("4") THEN "Tx"
    ELSE "Success"

\* Where the cursor goes when it leaves its result set in this step: the
\* state next_reply switches to, at once or after its queue_close.
Entered(c) == IF pc'[c] = "want_close" THEN pend'[c].new ELSE replies'[c]

\* One step of cursor c on a result set, as the stash sees it.
C33_Step(c) ==
    LET rs == replies[c].rs
    IN IF SameResultSet(replies[c], replies'[c])
       THEN /\ rs.stashed.some => replies'[c].rs.stashed = rs.stashed
            /\ (~rs.stashed.some /\ replies'[c].rs.stashed.some) =>
                  (pc[c] = "rd_fetch" /\ replies'[c].rs.stashed = SomeRowSet(rs.row_set))
            /\ (pc[c] = "rd_fetch" /\ ret'[c].kind = "Ok") =>
                  /\ replies'[c].rs.stashed.some
                  /\ ~rs.stashed.some => rs.row_set.buf = replies'[c].rs.stashed.buf
       ELSE (rs.stashed.some /\ ret'[c].kind # "BadReply") =>
               /\ Entered(c).kind = SectionKind(rs.stashed.buf)
               /\ Entered(c).kind = "Data" =>
                     Entered(c).rs.result_id = rs.stashed.buf[4].n

\* C33: the first fetch_more_rows on a result set moves the initial window
\* into the stash; later fetches replace the current window only and leave
\* the stash as it is; and when the cursor leaves the result set the next
\* reply is the section that follows the result set in the statement's
\* reply, which the stash holds, and not what is left of an Xexport reply.
C33_Stash ==
    [][\A c \in Cursors : replies[c].kind = "Data" => C33_Step(c)]_vars

\* After a second fetch the stash still holds the section that follows the
\* result set, while the window is at the end of an Xexport reply.
C33_Witness ==
    \E c \in Cursors :
        /\ replies[c].kind = "Data" /\ replies[c].rs.stashed.some
        /\ Len(fetched[c]) = 2
        /\ replies[c].rs.row_set.buf = <<>>
        /\ SectionKind(replies[c].rs.stashed.buf) \in {"Data", "Success"}

\* ------------------------------------------------------------------ C34
\* Cursor c's fetch reads its reply in this step and installs a new window.
Refetched(c) ==
    /\ pc[c] = "rd_fetch" /\ holder = c
    /\ replies'[c].kind = "Data"
    /\ replies'[c].rs.row_set.buf # replies[c].rs.row_set.buf
       \/ ret'[c].kind = "Ok"
\* The reply to the Xexport: the message after the acknowledgements.
ExportReply == sockIn[Len(delayed.responses) + 1]
\* The i-th number of its header line.
ExportField(i) == ExportReply[3 + i].n
\* The column count the result set was announced with, in its &1 header.
Columns(c) ==
    IF replies[c].rs.stashed.some THEN replies[c].rs.stashed.ncols
    ELSE replies[c].rs.row_set.ncols

EscapedText == SubSeq(wire.data, wire.pos + 1, conv.rd - 1)

\* The same call, made on the bytes from the position on.
Whole == convert_backslashes(Drop(wire.data, wire.pos), wire.skip)

\* C35: convert_backslashes decodes in place.  At every turn of its loop
\* wr <= rd <= end, and the bytes before the first write and from rd on are
\* the ones the buffer held at the call; when it returns Ok, the slice is
\* the bytes from the old position to wr, unescaped, and no longer than the
\* escaped text; the position is just after the closing quote; and every byte
\* at or after the position is as it was.
C35_InPlace ==
    /\ wire.pos + wire.skip <= conv.wr
    /\ conv.wr <= conv.rd
    /\ conv.rd <= Len(conv.data)
    /\ Len(conv.data) = Len(wire.data)
    /\ \A i \in 1..Len(wire.data) :
          (i <= wire.pos + wire.skip \/ i > conv.rd) => conv.data[i] = wire.data[i]
    /\ conv.ret = "" => conv.pos = wire.pos
    /\ conv.ret \notin {"", "Ok"} => (conv.pos = wire.pos /\ Whole.err = conv.ret)
    /\ conv.ret = "Ok" =>
          /\ conv.slice = <<wire.pos, conv.wr>>
          /\ conv.wr - wire.pos <= Len(EscapedText)
          /\ conv.pos = conv.rd
          /\ wire.data[conv.pos] = QUOTE
          /\ Drop(conv.data, conv.pos) = Drop(wire.data, conv.pos)
          /\ Whole.err = ""
          /\ Whole.bytes = SubSeq(conv.data, conv.slice[1] + 1, conv.slice[2])
          /\ Whole.buf = Drop(conv.data, conv.pos)

\* A field with an escape in it was decoded: the slice is shorter than the
\* text, bytes of the buffer were overwritten and bytes follow the quote.
C35_Witness ==
    /\ conv # <<>>
    /\ conv.ret = "Ok"
    /\ wire.skip > 0
    /\ conv.wr - wire.pos < Len(EscapedText)
    /\ conv.data # wire.data
    /\ conv.pos < Len(conv.data)
\* ------------------------------------------------------------------ C36
\* A call of next_row that returns a row of the window the cursor holds.
ServedFromWindow(c) ==
    /\ replies[c].kind = "Data" /\ RowBuffered(c)
    /\ NextRowReturnsAtOnce(c)

\* A getter of cursor c returns.
GetterReturns(c) == pc[c] = "idle" /\ ret'[c].name = "get" /\ ret'[c] # ret[c]

\* The run_locked calls of the cursor methods: the state in which each waits
\* for the lock.
LockFor(name) ==
    CASE name = "execute" -> {"want_close", "want_cmd"}
      [] name = "next_reply" -> {"want_close"}
      [] name = "next_row" -> {"want_fetch"}
      [] name = "close" -> {"want_close", "want_flush"}
      [] OTHER -> {}

\* No step of next_row on a buffered row and no step of a getter touches the
\* lock or the socket; a cursor takes the lock only from a run_locked call.
C36_Steps ==
    \A c \in Cursors :
        /\ (ServedFromWindow(c) \/ GetterReturns(c))
             => /\ UNCHANGED <<connVars, serverVars>>
                /\ pc'[c] = "idle"
        /\ ServedFromWindow(c) => (ret'[c].kind = "Ok" /\ ret'[c].val)
        /\ GetterReturns(c) => ret'[c] = getter(replies[c])
        /\ (holder # c /\ holder' = c) => pc[c] \in LockFor(op[c].name)
        /\ pc'[c] \in Waiting => pc'[c] \in LockFor(op'[c].name)

\* Whatever the lock's state, an idle cursor's getter can return, and so can
\* its next_row when the window holds a row.
C36_NeverWaits ==
    \A c \in Cursors :
        pc[c] = "idle" =>
            /\ ENABLED Getter(c)
            /\ (replies[c].kind = "Data" /\ RowBuffered(c)) => ENABLED NextRow(c)

\* C36: next_row on a row of the current window, and every getter, complete
\* without the connection's mutex, also while another thread holds it; a
\* cursor takes the mutex only to refetch, to queue an Xclose, or in execute
\* and close.
C36_LockFree == [](C36_NeverWaits) /\ [][C36_Steps]_vars

\* A cursor got a row from its window and read it while the other cursor was
\* inside run_locked, waiting for the server.
C36_Witness ==
    /\ holder = 2 /\ pc[2] \in Awaiting
    /\ pc[1] = "idle" /\ ret[1] = Ret("get", "Ok", TRUE, <<replies[1].rs.row_set.fields>>)
    /\ trues[1] = 1
    /\ replies[1].kind = "Data"
\* ------------------------------------------------------------------ C37
\* The socket is in its slot and no run_locked call is in progress.
AtRest == sock /\ holder = 0

\* The delayed commands still in the queue's buffer.
Buffered == Len(delayed.buffer.msgs)

\* The request the cursor inside the closure wrote last.
OwnRequest(c) ==
    IF pc[c] = "rd_cmd" THEN <<T("s"), N(op[c].arg), T("\n;")>>
    ELSE <<T("Xexport"), N(replies[c].rs.result_id), N(replies[c].rs.next_row),
           N(decide_next_fetch(replies[c], reply_size).n)>>

\* The result sets of the statement the server ran last.
LastResults(stmt) == DataBefore(Scripts[stmt], Len(Scripts[stmt]))

\* Whether `reply` is the server's answer to the request of cursor c.
AnswersOwn(c, reply) ==
    IF pc[c] = "rd_cmd"
    THEN \E total \in app.totals : \E k \in 0..total :
            reply = StatementReply(Scripts[op[c].arg], 1,
                                   Len(results) - LastResults(op[c].arg) + 1, total, k)
    ELSE reply = ServerAnswer(OwnRequest(c), results, 0, 0).reply

\* At rest, the replies on their way are the acknowledgements of the delayed
\* commands written and not acknowledged, and the labels are theirs and
\* those of the commands still buffered.
C37_AtRest ==
    AtRest =>
        /\ delayed.buffer.open = <<>>
        /\ Len(delayed.responses) = Len(sockIn) + Buffered
        /\ \A i \in 1..Len(sockIn) : sockIn[i] = <<>> \/ sockIn[i][1] = BANG
        /\ \A j \in 1..Buffered :
              /\ delayed.buffer.msgs[j][1] = T("Xclose")
              /\ delayed.responses[Len(sockIn) + j] = "close"

\* Between its write and its read, the replies on their way to a cursor are
\* one per expected response and then the reply to its own request.
C37_OwnReply ==
    \A c \in Cursors :
        (holder = c /\ pc[c] \in {"rd_cmd", "rd_fetch"}) =>
            /\ sockOut.by = c
            /\ sockOut.msgs # <<>>
            /\ sockOut.msgs[Len(sockOut.msgs)] = OwnRequest(c)
            /\ Len(sockIn) = Len(delayed.responses) + 1
            /\ AnswersOwn(c, sockIn[Len(sockIn)])
            /\ Command(delayed.responses, sockIn).err = ""
                  => /\ Command(delayed.responses, sockIn).vec = sockIn[Len(sockIn)]
                     /\ Command(delayed.responses, sockIn).inbox = <<>>

\* C37: requests and replies stay paired.  When the socket is in its slot
\* and no run_locked call is in progress, every reply has been read but
\* those of the delayed commands written and not yet acknowledged, and the
\* expected responses are one label for each of these and for each command
\* still buffered; the message execute and fetch_more_rows parse is the
\* reply to their own request.
C37_Paired == C37_AtRest /\ C37_OwnReply

\* Both cursors have run their statement; one has fetched its row from the
\* server, the other has left its result set, whose Xclose is waiting in the
\* buffer with its label; no reply is on its way.
C37_Witness ==
    /\ AtRest
    /\ nexec = 2
    /\ Buffered = 1 /\ delayed.responses = <<"close">> /\ sockIn = <<>>
    /\ \E c, d \in Cursors :
          /\ Len(fetched[c]) = 1 /\ Returned(c, "next_row", "Ok")
          /\ Returned(d, "next_reply", "Ok") /\ replies[d].kind # "Data"
\* ------------------------------------------------------------------ C38
\* C38 as stated: establish_connection terminates whatever the server does:
\* it returns a connection or an error, also when the server answers every
\* response with the proxy's restart.
C38_Terminates == <>(where = "done")
\* ------------------------------------------------------------------ C39
\* A cursor method fails: it returns an error.
Fails(c, name) ==
    /\ pc[c] # "idle" \/ ret[c] # ret'[c]
    /\ pc'[c] = "idle"
    /\ ret'[c].name = name
    /\ ret'[c].kind \notin {"", "Ok"}

\* The panics of take_buffer and of result_set and result_set_mut.
ParserPanics == {<<T("take_buffer")>>, <<T("unreachable")>>}

\* No cursor method has met the panic of take_buffer or the unreachable!() of
\* result_set and result_set_mut; a cursor about to send a statement or to
\* flush is exhausted, one about to refetch is on a result set.
C39_Unreached ==
    \A c \in Cursors :
        /\ ret[c].kind = "panic" => ret[c].text \notin ParserPanics
        /\ pc[c] \in {"want_cmd", "in_cmd", "rd_cmd", "want_flush", "in_flush", "rd_flush"}
              => take_buffer(replies[c]).panic = FALSE
        /\ pc[c] \in {"want_fetch", "in_fetch", "rd_fetch"} => replies[c].kind = "Data"

\* A failing execute and a failing next_reply leave the cursor exhausted.
C39_LeftExhausted ==
    \A c \in Cursors :
        (Fails(c, "execute") \/ Fails(c, "next_reply")) => replies'[c].kind = "Exhausted"

InNextRow(c) == op[c].name = "next_row" /\ pc[c] \notin {"idle", "panicked", "gone"}

\* The Xexport the cursor inside the closure has written.
Xexport(c) == sockOut.msgs[Len(sockOut.msgs)]

\* Every Xexport written asks for at least one row and for no more than the
\* result set still has, and the server answers with that many rows.
C40_AsksForRows ==
    \A c \in Cursors :
        pc[c] = "rd_fetch" =>
            /\ Xexport(c)[1] = T("Xexport")
            /\ Xexport(c)[4].n >= 1
            /\ Xexport(c)[3].n + Xexport(c)[4].n <= replies[c].rs.total_rows
            /\ sockIn[Len(sockIn)][2] = T("6") => sockIn[Len(sockIn)][6].n = Xexport(c)[4].n

\* C40: every call of next_row returns, whatever the reply size (with 0 the
\* server sends every row in the first reply) and however many of its rows
\* the result set had in its first reply: each Xexport asks for at least
\* one row, and the call in progress comes to its end.
C40_NextRowTerminates ==
    /\ [](C40_AsksForRows)
    /\ \A c \in Cursors : InNextRow(c) ~> ~InNextRow(c)

\* The last row of a result set of MaxRows rows was fetched from the server
\* on its own, after the others.
C40_Witness ==
    \E c \in Cursors :
        /\ Returned(c, "next_row", "Ok") /\ ret[c].val
        /\ replies[c].kind = "Data"
        /\ replies[c].rs.total_rows = MaxRows /\ replies[c].rs.next_row = MaxRows
        /\ fetched[c] # <<>>
        /\ fetched[c][Len(fetched[c])][1] = MaxRows - 1
        /\ fetched[c][Len(fetched[c])][2] = 1
====
